---------------------------- MODULE Spec2Model ----------------------------
(***************************************************************************)
(* A model of the NMEA 0183 sentence decoder of src/src/parse.rs.          *)
(*                                                                         *)
(* A byte string is a sequence of one-character strings; Ascii gives each  *)
(* character its byte value.  A parser is an operator from an input to a   *)
(* result: Ok(rest, val), Error(kind) (nom's recoverable error, named by   *)
(* its ErrorKind) or Panic(msg) (the thread unwinds: no value returns).    *)
(* An absent Option is the empty sequence, a present one a 1-tuple.        *)
(* A floating-point value is the exact rational the text denotes, kept     *)
(* with its sign bit: [neg, num, den] in lowest terms.                     *)
(***************************************************************************)
EXTENDS Integers, Sequences, FiniteSets, TLC

\* ------------------------------------------------------------------ bytes

Ascii ==
    "$" :> 36 @@ "*" :> 42 @@ "," :> 44 @@ "." :> 46 @@ "+" :> 43 @@ "-" :> 45 @@
    "0" :> 48 @@ "1" :> 49 @@ "2" :> 50 @@ "3" :> 51 @@ "4" :> 52 @@ "5" :> 53 @@
    "6" :> 54 @@ "7" :> 55 @@ "8" :> 56 @@ "9" :> 57 @@ "A" :> 65 @@ "B" :> 66 @@
    "C" :> 67 @@ "D" :> 68 @@ "E" :> 69 @@ "F" :> 70 @@ "G" :> 71 @@ "H" :> 72 @@
    "K" :> 75 @@ "L" :> 76 @@ "M" :> 77 @@ "N" :> 78 @@ "P" :> 80 @@ "R" :> 82 @@
    "S" :> 83 @@ "T" :> 84 @@ "V" :> 86 @@ "W" :> 87 @@ "X" :> 88 @@ "Z" :> 90 @@
    "a" :> 97 @@ "b" :> 98 @@ "c" :> 99 @@ "d" :> 100 @@ "e" :> 101 @@ "f" :> 102 @@
    "Q" :> 81 @@ "g" :> 103 @@ "m" :> 109 @@ "x" :> 120 @@ " " :> 32 @@
    "I" :> 73 @@ "Y" :> 89 @@ "i" :> 105 @@ "n" :> 110 @@ "t" :> 116 @@ "y" :> 121 @@
    "\r" :> 13 @@ "\n" :> 10

Digits == <<"0", "1", "2", "3", "4", "5", "6", "7", "8", "9">>
HexUpper == Digits \o <<"A", "B", "C", "D", "E", "F">>

IsDigit(c) == Ascii[c] >= 48 /\ Ascii[c] <= 57
DigitVal(c) == Ascii[c] - 48

\* char::to_digit(16), as u8::from_str_radix uses it
IsHexDigit(c) ==
    \/ IsDigit(c)
    \/ Ascii[c] >= 65 /\ Ascii[c] <= 70
    \/ Ascii[c] >= 97 /\ Ascii[c] <= 102
HexVal(c) ==
    IF IsDigit(c) THEN DigitVal(c)
    ELSE IF Ascii[c] <= 70 THEN Ascii[c] - 55 ELSE Ascii[c] - 87

Drop(s, n) == SubSeq(s, n + 1, Len(s))
Take(s, n) == SubSeq(s, 1, n)

\* F applied to the value of x, with x computed once
Bind(x, F(_)) == CHOOSE out \in {F(v) : v \in {x}} : TRUE

\* the index of the first c in s, 0 when there is none
Find(s, c) ==
    Bind({k \in 1..Len(s) : s[k] = c}, LAMBDA at :
        IF at = {} THEN 0 ELSE CHOOSE k \in at : \A j \in at : k <= j)

RECURSIVE XorBits(_, _)
XorBits(a, b) ==
    IF a = 0 THEN b
    ELSE IF b = 0 THEN a
    ELSE ((a + b) % 2) + 2 * XorBits(a \div 2, b \div 2)

\* a ^ b on bytes
BitXor(a, b) == Bind(a, LAMBDA x : Bind(b, LAMBDA y : XorBits(x, y)))

RECURSIVE Pow10(_)
Pow10(k) == IF k = 0 THEN 1 ELSE 10 * Pow10(k - 1)

RECURSIVE Gcd(_, _)
Gcd(a, b) ==
    Bind(a, LAMBDA x : Bind(b, LAMBDA y : IF y = 0 THEN x ELSE Gcd(y, x % y)))

\* the number the first k digits of s denote
RECURSIVE DecValTo(_, _)
DecValTo(s, k) == IF k = 0 THEN 0 ELSE 10 * DecValTo(s, k - 1) + DigitVal(s[k])

DecVal(s) == DecValTo(s, Len(s))

\* the number the first k hex digits of s denote
RECURSIVE HexNumTo(_, _)
HexNumTo(s, k) == IF k = 0 THEN 0 ELSE 16 * HexNumTo(s, k - 1) + HexVal(s[k])

HexNum(s) == HexNumTo(s, Len(s))

\* --------------------------------------------------------------- results

None == <<>>
Some(v) == <<v>>
IsSome(o) == o # <<>>

\* std::result::Result
ResOk(v) == [st |-> "Ok", val |-> v]
ResErr(msg) == [st |-> "Err", msg |-> msg]

\* nom's IResult: Ok((rest, val)), Err(Error((_, kind))), Err(Failure((_,
\* kind))), which opt, alt and many0 do not recover from, or the panic that
\* unwinds through it
Ok(rest, val) == [st |-> "Ok", rest |-> rest, val |-> val]
Error(kind) == [st |-> "Error", kind |-> kind]
Failure(kind) == [st |-> "Failure", kind |-> kind]
Panic(msg) == [st |-> "Panic", msg |-> msg]
IsOk(r) == r.st = "Ok"

\* `let (i, _) = p(i)?;` after a step that produced r: P on what r left
Then(r, P(_)) == Bind(r, LAMBDA v : IF IsOk(v) THEN P(v.rest) ELSE v)

\* nom::sequence::tuple, one parser at a time: r holds the values so far
And(r, P(_)) ==
    Bind(r, LAMBDA v :
        IF ~IsOk(v) THEN v
        ELSE Bind(P(v.rest), LAMBDA q :
                 IF IsOk(q) THEN Ok(q.rest, Append(v.val, q.val)) ELSE q))

\* the empty tuple at input i
Start(i) == Ok(i, <<>>)

\* nom::combinator::map
Map(r, F(_)) == Bind(r, LAMBDA v : IF IsOk(v) THEN Ok(v.rest, F(v.val)) ELSE v)

\* nom::combinator::map_res on the outcome r of the inner parser: the
\* closure's Err is ErrorKind::MapRes, its panic unwinds
MapRes(r, F(_)) ==
    Bind(r, LAMBDA v :
        IF ~IsOk(v) THEN v
        ELSE Bind(F(v.val), LAMBDA x :
                 IF x.st = "Ok" THEN Ok(v.rest, x.val)
                 ELSE IF x.st = "Err" THEN Error("MapRes")
                 ELSE x))

\* ------------------------------------------------------ nom combinators

\* nom::bytes::complete::take
take(n, i) == IF Len(i) < n THEN Error("Eof") ELSE Ok(Drop(i, n), Take(i, n))

\* nom::character::complete::char
char(c, i) ==
    IF Len(i) > 0 /\ i[1] = c THEN Ok(Drop(i, 1), c) ELSE Error("Char")

\* nom::character::complete::one_of
one_of(set, i) ==
    IF Len(i) > 0 /\ i[1] \in set THEN Ok(Drop(i, 1), i[1]) ELSE Error("OneOf")

\* nom::bytes::complete::tag
tag(t, i) ==
    IF Len(i) >= Len(t) /\ Take(i, Len(t)) = t THEN Ok(Drop(i, Len(t)), t)
    ELSE Error("Tag")

\* nom::bytes::complete::take_until with a one-byte pattern
take_until(c, i) ==
    Bind(Find(i, c), LAMBDA k :
        IF k = 0 THEN Error("TakeUntil") ELSE Ok(Drop(i, k - 1), Take(i, k - 1)))

\* nom::combinator::opt: a recoverable error becomes None at the same input
opt(P(_), i) ==
    Bind(P(i), LAMBDA r :
        IF r.st = "Error" THEN Ok(i, None)
        ELSE IF IsOk(r) THEN Ok(r.rest, Some(r.val)) ELSE r)

\* nom::branch::alt of two parsers: the second one's error when both fail
alt(P(_), Q(_), i) == Bind(P(i), LAMBDA r : IF r.st = "Error" THEN Q(i) ELSE r)

\* the length of the longest run of digits of i that starts after k bytes
RECURSIVE DigitRun(_, _)
DigitRun(i, k) ==
    IF k < Len(i) /\ IsDigit(i[k + 1]) THEN DigitRun(i, k + 1) ELSE k

\* ErrorKind::description, for the kinds these parsers produce
description(kind) ==
    CASE kind = "MapRes" -> "Map on Result"
      [] kind = "TakeUntil" -> "Take until"
      [] kind = "Eof" -> "End of file"
      [] OTHER -> kind

\* .map_err(|err| match err { .. kind.description().to_string() }) and the
\* record out of the Ok pair
MapErr(r) ==
    Bind(r, LAMBDA v :
        IF IsOk(v) THEN ResOk(v.val)
        ELSE IF v.st \in {"Error", "Failure"} THEN ResErr(description(v.kind))
        ELSE v)

\* the largest values of the integer types parse_num is instantiated at;
\* u32::MAX, 4294967295, is above the integers of the model and is kept as
\* its digits
U8Max == 255
U16Max == 65535
I32Max == 2147483647
U32MaxDigits == <<"4", "2", "9", "4", "9", "6", "7", "2", "9", "5">>

\* ------------------------------------------------------------- checksum

\* a fold that stops one byte short of the end
checksum_short_of_last(bytes) ==
    LET RECURSIVE fold(_, _)
        fold(lo, hi) ==
            IF lo > hi THEN 0
            ELSE IF lo = hi THEN Ascii[bytes[lo]]
            ELSE Bind((lo + hi) \div 2, LAMBDA mid :
                     BitXor(fold(lo, mid), fold(mid + 1, hi)))
    IN fold(1, Len(bytes) - 1)

\* checksum: bytes.fold(0, |c, x| c ^ *x), the XOR of all the bytes.  XOR is
\* associative with unit 0, so the fold of bytes[lo..hi] is the XOR of the
\* folds of its two halves.
checksum(bytes) ==
    LET RECURSIVE fold(_, _)
        fold(lo, hi) ==
            IF lo > hi THEN 0
            ELSE IF lo = hi THEN Ascii[bytes[lo]]
            ELSE Bind((lo + hi) \div 2, LAMBDA mid :
                     BitXor(fold(lo, mid), fold(mid + 1, hi)))
    IN fold(1, Len(bytes))

\* a calc_checksum that leaves the ',' after the message id out of the fold
calc_checksum_without_comma(s) == checksum(s.talker_id \o s.message_id \o s.data)

\* NmeaSentence::calc_checksum
calc_checksum(s) == checksum(s.talker_id \o s.message_id \o <<",">> \o s.data)

\* the digits of an unsigned number text: one leading '+' is allowed
Unsigned(data) == IF Len(data) > 0 /\ data[1] = "+" THEN Drop(data, 1) ELSE data

\* parse_hex: u8::from_str_radix(data, 16) on the two bytes after '*'
parse_hex(data) ==
    Bind(Unsigned(data), LAMBDA body :
        IF Len(body) = 0 \/ \E k \in 1..Len(body) : ~IsHexDigit(body[k])
        THEN ResErr("Failed to parse checksum as hex number")
        ELSE IF HexNum(body) > U8Max
        THEN ResErr("Failed to parse checksum as hex number")
        ELSE ResOk(HexNum(body)))

\* parse_checksum: map_res(preceded(char('*'), take(2)), parse_hex)
parse_checksum(i) ==
    MapRes(Then(char("*", i), LAMBDA j : take(2, j)), parse_hex)

\* -------------------------------------------------------------- framing

\* a framing that refuses an input with bytes left after the checksum
do_parse_nmea_sentence_all_consuming(i) ==
    Bind(Map(And(And(And(And(And(Start(i),
            LAMBDA j : Then(char("$", j), LAMBDA k : take(2, k))),
            LAMBDA j : take(3, j)),
            LAMBDA j : char(",", j)),
            LAMBDA j : take_until("*", j)),
            parse_checksum),
        LAMBDA x : [talker_id |-> x[1], message_id |-> x[2],
                    data |-> x[4], checksum |-> x[5]]),
        LAMBDA r : IF IsOk(r) /\ Len(r.rest) > 0 THEN Error("Eof") ELSE r)

do_parse_nmea_sentence(i) ==
    Map(And(And(And(And(And(Start(i),
            LAMBDA j : Then(char("$", j), LAMBDA k : take(2, k))),
            LAMBDA j : take(3, j)),
            LAMBDA j : char(",", j)),
            LAMBDA j : take_until("*", j)),
            parse_checksum),
        LAMBDA x : [talker_id |-> x[1], message_id |-> x[2],
                    data |-> x[4], checksum |-> x[5]])

MaxSentenceLen == 102

\* a length check that also refuses an input of exactly the limit
parse_nmea_sentence_refusing_the_limit(sentence) ==
    IF Len(sentence) >= MaxSentenceLen THEN ResErr("Too long message")
    ELSE MapErr(do_parse_nmea_sentence(sentence))

parse_nmea_sentence(sentence) ==
    IF Len(sentence) > MaxSentenceLen THEN ResErr("Too long message")
    ELSE MapErr(do_parse_nmea_sentence(sentence))

\* -------------------------------------------------------------- numbers

\* the digits of a number n >= 0
RECURSIVE DigitsOf(_)
DigitsOf(n) ==
    IF n < 10 THEN <<Digits[n + 1]>>
    ELSE DigitsOf(n \div 10) \o <<Digits[(n % 10) + 1]>>

\* the number of leading zeros of the digits d after its first k, the last
\* digit never counted
RECURSIVE LeadingZeros(_, _)
LeadingZeros(d, k) ==
    IF k + 1 < Len(d) /\ d[k + 1] = "0" THEN LeadingZeros(d, k + 1) ELSE k

\* digits without their leading zeros
Normalized(d) == Drop(d, LeadingZeros(d, 0))

\* a <= b for two normalized digit texts
LeqDigits(a, b) ==
    \/ Len(a) < Len(b)
    \/ /\ Len(a) = Len(b)
       /\ \/ a = b
          \/ \E k \in 1..Len(a) :
                 /\ DigitVal(a[k]) < DigitVal(b[k])
                 /\ \A j \in 1..(k - 1) : a[j] = b[j]

\* the integer types: whether a '-' is read, the digits of the largest value
\* and of the magnitude of the smallest
U8 == [signed |-> FALSE, max |-> DigitsOf(U8Max), min |-> <<"0">>]
U16 == [signed |-> FALSE, max |-> DigitsOf(U16Max), min |-> <<"0">>]
U32 == [signed |-> FALSE, max |-> U32MaxDigits, min |-> <<"0">>]
I32 == [signed |-> TRUE, max |-> DigitsOf(I32Max),
        min |-> <<"2", "1", "4", "7", "4", "8", "3", "6", "4", "8">>]

\* the value of normalized digits with a sign: an integer of the model, and
\* for a u32 above i32::MAX its digits
IntOf(neg, norm) ==
    IF LeqDigits(norm, DigitsOf(I32Max))
    THEN (IF neg THEN 0 - DecVal(norm) ELSE DecVal(norm))
    ELSE IF neg THEN 0 - I32Max - 1
    ELSE [big |-> norm]

\* parse_num::<I>: str::parse of the integer type T.  The text is one
\* optional '+', or for a signed type '-', and then digits, at least one.
parse_num(T, data) ==
    Bind(IF Len(data) > 0 /\ (data[1] = "+" \/ (T.signed /\ data[1] = "-")) THEN 1 ELSE 0,
         LAMBDA s :
        IF Len(data) = s \/ \E k \in (s + 1)..Len(data) : ~IsDigit(data[k])
        THEN ResErr("parse of number failed")
        ELSE Bind(Normalized(Drop(data, s)), LAMBDA norm :
            IF ~LeqDigits(norm, IF s = 1 /\ data[1] = "-" THEN T.min ELSE T.max)
            THEN ResErr("parse of number failed")
            ELSE ResOk(IntOf(s = 1 /\ data[1] = "-", norm))))

\* map_res(take(n), parse_num::<I>)
take_num(n, T, i) == MapRes(take(n, i), LAMBDA d : parse_num(T, d))

\* nom::character::complete::digit1
digit1(i) ==
    Bind(DigitRun(i, 0), LAMBDA k :
        IF k = 0 THEN Error("Digit") ELSE Ok(Drop(i, k), Take(i, k)))

\* number::<T>: map_res(digit1, parse_num)
number(T, i) == MapRes(digit1(i), LAMBDA d : parse_num(T, d))

Rat(neg, n, d) == LET g == Gcd(n, d) IN [neg |-> neg, num |-> n \div g, den |-> d \div g]

\* f32 and f64 values: a rational num / den with its sign, and with den = 0
\* an infinity (num = 1) or a NaN (num = 0)
Inf(neg) == [neg |-> neg, num |-> 1, den |-> 0]
NaN(neg) == [neg |-> neg, num |-> 0, den |-> 0]
IsFinite(v) == v.den # 0

\* digits * 10^e
Scaled(neg, digits, e) ==
    IF e >= 0 THEN Rat(neg, DecVal(digits) * Pow10(e), 1)
    ELSE Rat(neg, DecVal(digits), Pow10(0 - e))

\* the mantissa of a float text after its first s bytes: digit1 and then
\* '.' and digits or none, or '.' and digit1; end = 0 when there is no digit
Mantissa(i, s) ==
    Bind(DigitRun(i, s), LAMBDA intEnd :
        Bind(IF intEnd < Len(i) /\ i[intEnd + 1] = "." THEN DigitRun(i, intEnd + 1)
             ELSE intEnd, LAMBDA fracEnd :
            IF intEnd = s /\ fracEnd <= intEnd + 1 THEN [end |-> 0]
            ELSE [end |-> fracEnd,
                  digits |-> SubSeq(i, s + 1, intEnd) \o SubSeq(i, intEnd + 2, fracEnd),
                  fracLen |-> IF fracEnd > intEnd THEN fracEnd - intEnd - 1 ELSE 0]))

\* the exponent after the first p bytes: 'e' or 'E', a sign or none, and
\* digits; "cut" when the digits are missing
Exponent(i, p) ==
    IF p < Len(i) /\ i[p + 1] \in {"e", "E"}
    THEN Bind(IF p + 1 < Len(i) /\ i[p + 2] \in {"+", "-"} THEN p + 2 ELSE p + 1,
              LAMBDA q :
             Bind(DigitRun(i, q), LAMBDA dEnd :
                 IF dEnd = q THEN [st |-> "cut"]
                 ELSE [st |-> "ok", end |-> dEnd,
                       val |-> IF i[q] = "-" THEN 0 - DecVal(SubSeq(i, q + 1, dEnd))
                               ELSE DecVal(SubSeq(i, q + 1, dEnd))]))
    ELSE [st |-> "ok", end |-> p, val |-> 0]

\* the code of a byte, a capital letter taken as its small letter
LowerCode(c) == IF Ascii[c] >= 65 /\ Ascii[c] <= 90 THEN Ascii[c] + 32 ELSE Ascii[c]

\* the first bytes of i are the word, in either case
TagNoCase(word, i) ==
    Len(i) >= Len(word) /\ \A k \in 1..Len(word) : LowerCode(i[k]) = Ascii[word[k]]

\* "nan" and "inf" without a sign, in either case ("infinity" is read as "inf")
FloatException(i) ==
    IF TagNoCase(<<"n", "a", "n">>, i) THEN Ok(Drop(i, 3), NaN(FALSE))
    ELSE IF TagNoCase(<<"i", "n", "f">>, i) THEN Ok(Drop(i, 3), Inf(FALSE))
    ELSE Error("Float")

\* nom::number::complete::float and double: the longest prefix that reads as
\* [sign] mantissa [exponent], or nan or inf, and its value; an 'e' or 'E'
\* without digits after it is a Failure.  The behaviour on an exponent without
\* digits and on nan and inf is the one of nom 7.1.
float(i) ==
    Bind(IF Len(i) > 0 /\ i[1] \in {"+", "-"} THEN 1 ELSE 0, LAMBDA s :
        Bind(Mantissa(i, s), LAMBDA m :
            IF m.end = 0 THEN FloatException(i)
            ELSE Bind(Exponent(i, m.end), LAMBDA e :
                IF e.st = "cut" THEN Failure("Float")
                ELSE Ok(Drop(i, e.end),
                        Scaled(s = 1 /\ i[1] = "-", m.digits, e.val - m.fracLen)))))

double(i) == float(i)

\* val / k for a float val and a positive decimal constant k = kn / kd
FloatDiv(val, kn, kd) ==
    IF IsFinite(val) THEN Rat(val.neg, val.num * kd, val.den * kn) ELSE val

\* ----------------------------------------------------------- time of day

NanosPerSecond == 1000000000

\* chrono's NaiveTime::from_hms_nano: panics unless from_hms_nano_opt is Some.
\* A nano of a second or more, the leap second, is taken only with sec = 59.
\* The nanoseconds parse_hms passes are a whole second when the fraction of
\* the seconds rounds up to one.
from_hms_nano(hour, min, sec, nano) ==
    IF \/ hour >= 24 \/ min >= 60 \/ sec >= 60
       \/ nano >= NanosPerSecond /\ sec # 59
       \/ nano - NanosPerSecond >= NanosPerSecond
    THEN Panic("invalid time")
    ELSE ResOk([hour |-> hour, min |-> min, sec |-> sec, nano |-> nano])

\* The seconds are an f64, and so is the product of their fraction and
\* 1_000_000_000f64: a significand of 53 bits, rounded to nearest with ties to
\* even.  A value here is its whole part int and the bits of its fraction.
MantissaBits == 53

\* the bits of a fraction that are computed: the first one-bit of a non-zero
\* r / den is within its first 32, the significand follows and one bit more
\* decides the rounding
FractionBits == MantissaBits + 32

\* one more bit of r / den: the bits so far and what is left, doubled
FracStep(s, den) ==
    IF s.r >= den - s.r THEN [r |-> s.r - (den - s.r), bits |-> Append(s.bits, 1)]
    ELSE [r |-> s.r + s.r, bits |-> Append(s.bits, 0)]

\* k more bits, the first half of them before the second
RECURSIVE FracRun(_, _, _)
FracRun(s, den, k) ==
    IF k = 0 THEN s
    ELSE IF k = 1 THEN FracStep(s, den)
    ELSE Bind(FracRun(s, den, k \div 2), LAMBDA t : FracRun(t, den, k - k \div 2))

\* the first k bits of r / den, for 0 <= r < den, and one more one-bit when
\* the fraction does not end there
FracBits(r, den, k) ==
    Bind(FracRun([r |-> r, bits |-> <<>>], den, k), LAMBDA s :
        IF s.r = 0 THEN s.bits ELSE Append(s.bits, 1))

\* the number of bits of n
RECURSIVE BitLen(_)
BitLen(n) == IF n = 0 THEN 0 ELSE 1 + BitLen(n \div 2)

\* the number of zero bits in front of the first one-bit
LeadingZeroBits(bits) ==
    IF \A j \in 1..Len(bits) : bits[j] = 0 THEN Len(bits)
    ELSE (CHOOSE j \in 1..Len(bits) :
              bits[j] = 1 /\ \A i \in 1..(j - 1) : bits[i] = 0) - 1

\* k times one more bit of bits, from its last: the bit of the product, put
\* in front of those after it, and what is carried to the bit before
TimesStep(s, bits, k) ==
    Bind(k * bits[Len(bits) - Len(s.bits)] + s.int, LAMBDA v :
        [int |-> v \div 2, bits |-> <<v % 2>> \o s.bits])

\* n more bits, the first half of them before the second
RECURSIVE TimesRun(_, _, _, _)
TimesRun(s, bits, k, n) ==
    IF n = 0 THEN s
    ELSE IF n = 1 THEN TimesStep(s, bits, k)
    ELSE Bind(TimesRun(s, bits, k, n \div 2), LAMBDA t :
             TimesRun(t, bits, k, n - n \div 2))

\* k times the fraction of bits, and carry in its last place: the whole part
\* and the bits of the fraction
TimesBits(bits, k, carry) ==
    Bind(bits, LAMBDA b : TimesRun([int |-> carry, bits |-> <<>>], b, k, Len(b)))

\* int and the fraction bits as an f64: the bits the significand has room
\* for, one more in the last place when the rest is more than half of it, or
\* half of it and the last bit kept is a one
RoundBits(int, bits) ==
    Bind(IF int > 0 THEN MantissaBits - BitLen(int)
         ELSE LeadingZeroBits(bits) + MantissaBits, LAMBDA keep :
        IF Len(bits) <= keep THEN [int |-> int, bits |-> bits]
        ELSE IF /\ bits[keep + 1] = 1
                /\ \/ bits[keep] = 1
                   \/ \E j \in (keep + 2)..Len(bits) : bits[j] = 1
        THEN Bind(TimesBits(SubSeq(bits, 1, keep), 1, 1), LAMBDA u :
                 [int |-> int + u.int, bits |-> u.bits])
        ELSE [int |-> int, bits |-> SubSeq(bits, 1, keep)])

\* the f64 nearest to the number of a text
F64Of(val) ==
    RoundBits(val.num \div val.den,
              FracBits(val.num % val.den, val.den, FractionBits))

\* (sec.fract() * 1_000_000_000f64).round() as u32, for the fraction bits of
\* sec: the product as an f64, and round() takes a half or more upwards
fract_nanos(bits) ==
    Bind(TimesBits(bits, NanosPerSecond, 0), LAMBDA p :
        Bind(RoundBits(p.int, p.bits), LAMBDA q :
            IF Len(q.bits) > 0 /\ q.bits[1] = 1 THEN q.int + 1 ELSE q.int))

\* the closure of parse_hms: Err(&str), a time, or the panic of from_hms_nano.
\* `as u32` gives 0 for a NaN and u32::MAX for an infinity, whose fract() is
\* a NaN.
hms_from_parts(hour, minutes, sec) ==
    IF sec.neg THEN ResErr("Invalid time: second is negative")
    ELSE IF hour >= 24 THEN ResErr("Invalid time: hour >= 24")
    ELSE IF minutes >= 60 THEN ResErr("Invalid time: min >= 60")
    ELSE IF ~IsFinite(sec)
    THEN (IF sec.num = 0 THEN from_hms_nano(hour, minutes, 0, 0)
          ELSE Panic("invalid time"))
    ELSE Bind(F64Of(sec), LAMBDA s :
             from_hms_nano(hour, minutes, s.int, fract_nanos(s.bits)))

\* map_parser(take_until(","), double): double on the bytes before the ','
seconds_field(i) ==
    Bind(take_until(",", i), LAMBDA r :
        IF ~IsOk(r) THEN r
        ELSE Bind(double(r.val), LAMBDA d : IF IsOk(d) THEN Ok(r.rest, d.val) ELSE d))

parse_hms(i) ==
    MapRes(And(And(And(Start(i),
            LAMBDA j : take_num(2, U32, j)),
            LAMBDA j : take_num(2, U32, j)),
            seconds_field),
        LAMBDA x : hms_from_parts(x[1], x[2], x[3]))

\* ----------------------------------------------------------------- date

IsLeap(year) == (year % 4 = 0 /\ year % 100 # 0) \/ year % 400 = 0

DaysIn(year, month) ==
    IF month = 2 THEN (IF IsLeap(year) THEN 29 ELSE 28)
    ELSE IF month \in {4, 6, 9, 11} THEN 30 ELSE 31

\* chrono's NaiveDate::from_ymd: panics unless from_ymd_opt is Some
from_ymd(year, month, day) ==
    IF month < 1 \/ month > 12 \/ day < 1 \/ day > DaysIn(year, month)
    THEN Panic("invalid or out-of-range date")
    ELSE ResOk([year |-> year, month |-> month, day |-> day])

\* the closure of parse_date
date_from_parts(day, month, year) ==
    IF month < 1 \/ month > 12 THEN ResErr("Invalid month < 1 or > 12")
    ELSE IF day < 1 \/ day > 31 THEN ResErr("Invalid day < 1 or > 31")
    ELSE from_ymd(year, month, day)

parse_date(i) ==
    MapRes(And(And(And(Start(i),
            LAMBDA j : take_num(2, U8, j)),
            LAMBDA j : take_num(2, U8, j)),
            LAMBDA j : take_num(2, U8, j)),
        LAMBDA data : date_from_parts(data[1], data[2], data[3]))

\* ------------------------------------------------------------- lat/lon

\* f64::from(deg) + min / 60. as n / (60 * min.den), negated for the
\* hemisphere letter `minus`
DegMinOf(n, den, negate) == Rat((n < 0) # negate, IF n < 0 THEN 0 - n ELSE n, 60 * den)

DegMin(deg, min, dir, minus) ==
    IF ~IsFinite(min) THEN [min EXCEPT !.neg = (min.neg # (dir = minus))]
    ELSE DegMinOf(deg * 60 * min.den + (IF min.neg THEN 0 - min.num ELSE min.num),
             min.den, dir = minus)

do_parse_lat_lon(i) ==
    Map(And(And(And(And(And(And(And(And(And(Start(i),
            LAMBDA j : take_num(2, U8, j)),
            double),
            LAMBDA j : char(",", j)),
            LAMBDA j : one_of({"N", "S"}, j)),
            LAMBDA j : char(",", j)),
            LAMBDA j : take_num(3, U8, j)),
            double),
            LAMBDA j : char(",", j)),
            LAMBDA j : one_of({"E", "W"}, j)),
        LAMBDA x : [lat |-> DegMin(x[1], x[2], x[4], "S"),
                    lon |-> DegMin(x[6], x[7], x[9], "W")])

\* alt((map(tag(",,,"), |_| None), map(do_parse_lat_lon, Some)))
parse_lat_lon(i) ==
    alt(LAMBDA j : Map(tag(<<",", ",", ",">>, j), LAMBDA t : None),
        LAMBDA j : Map(do_parse_lat_lon(j), Some), i)

\* ------------------------------------------------------------------ GSA

\* terminated(opt(number::<u32>), char(','))
gsa_prn_field(i) ==
    Map(And(And(Start(i),
            LAMBDA j : opt(LAMBDA k : number(U32, k), j)),
            LAMBDA j : char(",", j)),
        LAMBDA x : x[1])

\* many0: repeat until the element parser fails; an element that consumes
\* nothing is an error
RECURSIVE many0_prn(_, _)
many0_prn(i, acc) ==
    Bind(gsa_prn_field(i), LAMBDA r :
        IF r.st = "Error" THEN Ok(i, acc)
        ELSE IF ~IsOk(r) THEN r
        ELSE IF Len(r.rest) = Len(i) THEN Error("Many0")
        ELSE many0_prn(r.rest, Append(acc, r.val)))

gsa_prn_fields_parse(i) == many0_prn(i, <<>>)

do_parse_gsa_tail(i) ==
    Map(And(And(And(And(And(And(Start(i),
            gsa_prn_fields_parse),
            float),
            LAMBDA j : char(",", j)),
            float),
            LAMBDA j : char(",", j)),
            float),
        LAMBDA x : [prns |-> x[1], pdop |-> Some(x[2]),
                    hdop |-> Some(x[4]), vdop |-> Some(x[6])])

is_comma(x) == x = ","

\* the empty tail taken for any leading run of commas, whatever follows it
do_parse_empty_gsa_tail_not_all_consuming(i) ==
    IF Len(i) = 0 \/ ~is_comma(i[1]) THEN Error("TakeWhile1")
    ELSE Ok(<<>>, [prns |-> <<>>, pdop |-> None, hdop |-> None, vdop |-> None])

\* value((Vec::new(), None, None, None), all_consuming(take_while1(is_comma)))
do_parse_empty_gsa_tail(i) ==
    IF Len(i) = 0 \/ ~is_comma(i[1]) THEN Error("TakeWhile1")
    ELSE IF \E k \in 1..Len(i) : ~is_comma(i[k]) THEN Error("Eof")
    ELSE Ok(<<>>, [prns |-> <<>>, pdop |-> None, hdop |-> None, vdop |-> None])

\* tail.0.drain(..).filter_map(|v| v).collect()
RECURSIVE filter_map_from(_, _)
filter_map_from(prns, k) ==
    IF k > Len(prns) THEN <<>>
    ELSE (IF IsSome(prns[k]) THEN <<prns[k][1]>> ELSE <<>>) \o filter_map_from(prns, k + 1)

filter_map(prns) == filter_map_from(prns, 1)

GsaMode1(c) == IF c = "M" THEN "Manual" ELSE "Automatic"

GsaMode2(c) ==
    CASE c = "1" -> "NoFix"
      [] c = "2" -> "Fix2D"
      [] OTHER -> "Fix3D"

do_parse_gsa(i) ==
    Map(And(And(And(And(And(Start(i),
            LAMBDA j : one_of({"M", "A"}, j)),
            LAMBDA j : char(",", j)),
            LAMBDA j : one_of({"1", "2", "3"}, j)),
            LAMBDA j : char(",", j)),
            LAMBDA j : alt(do_parse_empty_gsa_tail, do_parse_gsa_tail, j)),
        LAMBDA x : [mode1 |-> GsaMode1(x[1]),
                    mode2 |-> GsaMode2(x[3]),
                    fix_sats_prn |-> filter_map(x[5].prns),
                    pdop |-> x[5].pdop, hdop |-> x[5].hdop, vdop |-> x[5].vdop])

\* every parse_xxx wrapper: the message id test, then the decoder's record or
\* its error as a String
Decoded(s, id, msg, r) == IF s.message_id # id THEN ResErr(msg) ELSE MapErr(r)

parse_gsa(s) ==
    Decoded(s, <<"G", "S", "A">>, "GSA message should starts with $..GSA",
            do_parse_gsa(s.data))

\* ------------------------------------------------------------------ VTG

\* the speed match of do_parse_vtg
vtg_speed(knots, kph) ==
    IF IsSome(knots) THEN knots
    ELSE IF IsSome(kph) THEN Some(FloatDiv(kph[1], 1852, 1000))
    ELSE None

do_parse_vtg(i) ==
    Map(And(And(And(And(And(And(And(And(And(And(And(And(And(And(Start(i),
            LAMBDA j : opt(float, j)),
            LAMBDA j : char(",", j)),
            LAMBDA j : opt(LAMBDA k : char("T", k), j)),
            LAMBDA j : char(",", j)),
            LAMBDA j : opt(float, j)),
            LAMBDA j : char(",", j)),
            LAMBDA j : opt(LAMBDA k : char("M", k), j)),
            LAMBDA j : char(",", j)),
            LAMBDA j : opt(float, j)),
            LAMBDA j : char(",", j)),
            LAMBDA j : opt(LAMBDA k : char("N", k), j)),
            LAMBDA j : opt(float, j)),
            LAMBDA j : char(",", j)),
            LAMBDA j : opt(LAMBDA k : char("K", k), j)),
        LAMBDA x : [true_course |-> x[1],
                    speed_over_ground |-> vtg_speed(x[9], x[12])])

parse_vtg(s) ==
    Decoded(s, <<"V", "T", "G">>, "VTG message should starts with $..VTG",
            do_parse_vtg(s.data))

\* ------------------------------------------------------------------ GLL

\* impl From<char> for PosSystemIndicator
PosSystemIndicator(b) ==
    CASE b = "A" -> "Autonomous"
      [] b = "D" -> "Differential"
      [] b = "E" -> "EstimatedMode"
      [] b = "M" -> "ManualInput"
      [] b = "N" -> "DataNotValid"
      [] OTHER -> "DataNotValid"

\* terminated(map(one_of("ADEM"), PosSystemIndicator::from), char(','))
gll_mode(i) ==
    Map(And(And(Start(i),
            LAMBDA j : Map(one_of({"A", "D", "E", "M"}, j), PosSystemIndicator)),
            LAMBDA j : char(",", j)),
        LAMBDA x : x[1])

\* the validity flag of do_parse_gll: char('A')
gll_valid(i) == char("A", i)

do_parse_gll(i) ==
    Map(And(And(And(And(And(And(And(And(Start(i),
            do_parse_lat_lon),
            LAMBDA j : char(",", j)),
            parse_hms),
            LAMBDA j : take_until(",", j)),
            LAMBDA j : char(",", j)),
            gll_valid),
            LAMBDA j : char(",", j)),
            LAMBDA j : opt(gll_mode, j)),
        LAMBDA x : [latitude |-> x[1].lat, longitude |-> x[1].lon,
                    fix_time |-> x[3], mode |-> x[8]])

parse_gll(s) ==
    Decoded(s, <<"G", "L", "L">>, "GLL message should starts with $..GLL",
            do_parse_gll(s.data))

\* ------------------------------------------------------------------ GGA

\* FixType::from(char), for the digits one_of("012345678") lets through
FixType(c) ==
    CASE c = "0" -> "Invalid"
      [] c = "1" -> "Gps"
      [] c = "2" -> "DGps"
      [] c = "3" -> "Pps"
      [] c = "4" -> "Rtk"
      [] c = "5" -> "FloatRtk"
      [] c = "6" -> "Estimated"
      [] c = "7" -> "Manual"
      [] OTHER -> "Simulation"

\* the whole text is the word, in either case
IsNoCase(word, t) == Len(t) = Len(word) /\ TagNoCase(word, t)

\* parse_float_num::<f32>: str::parse of the whole field: [sign] and then
\* inf, infinity or nan in either case, or a mantissa and an exponent or none
parse_float_num(input) ==
    Bind(IF Len(input) > 0 /\ input[1] \in {"+", "-"} THEN 1 ELSE 0, LAMBDA s :
        IF IsNoCase(<<"n", "a", "n">>, Drop(input, s))
        THEN ResOk(NaN(s = 1 /\ input[1] = "-"))
        ELSE IF \/ IsNoCase(<<"i", "n", "f">>, Drop(input, s))
                \/ IsNoCase(<<"i", "n", "f", "i", "n", "i", "t", "y">>, Drop(input, s))
        THEN ResOk(Inf(s = 1 /\ input[1] = "-"))
        ELSE Bind(Mantissa(input, s), LAMBDA m :
            IF m.end = 0 THEN ResErr("parse of float number failed")
            ELSE Bind(Exponent(input, m.end), LAMBDA e :
                IF e.st = "cut" \/ e.end # Len(input)
                THEN ResErr("parse of float number failed")
                ELSE ResOk(Scaled(s = 1 /\ input[1] = "-", m.digits,
                                  e.val - m.fracLen)))))

\* map_res(take_until(","), parse_float_num::<f32>)
float_field(i) == MapRes(take_until(",", i), parse_float_num)

\* the latitude dropped from the record
LatOf_dropped(lat_lon) == None

\* lat_lon.map(|v| v.0) and lat_lon.map(|v| v.1)
LatOf(lat_lon) == IF IsSome(lat_lon) THEN Some(lat_lon[1].lat) ELSE None
LonOf(lat_lon) == IF IsSome(lat_lon) THEN Some(lat_lon[1].lon) ELSE None

do_parse_gga(i) ==
    Map(And(And(And(And(And(And(And(And(And(And(And(And(And(And(And(And(And(Start(i),
            LAMBDA j : opt(parse_hms, j)),
            LAMBDA j : char(",", j)),
            parse_lat_lon),
            LAMBDA j : char(",", j)),
            LAMBDA j : one_of({"0", "1", "2", "3", "4", "5", "6", "7", "8"}, j)),
            LAMBDA j : char(",", j)),
            LAMBDA j : opt(LAMBDA k : number(U32, k), j)),
            LAMBDA j : char(",", j)),
            LAMBDA j : opt(float, j)),
            LAMBDA j : char(",", j)),
            LAMBDA j : opt(float_field, j)),
            LAMBDA j : char(",", j)),
            LAMBDA j : opt(LAMBDA k : char("M", k), j)),
            LAMBDA j : char(",", j)),
            LAMBDA j : opt(float_field, j)),
            LAMBDA j : char(",", j)),
            LAMBDA j : opt(LAMBDA k : char("M", k), j)),
        LAMBDA x : [fix_time |-> x[1],
                    fix_type |-> Some(FixType(x[5])),
                    latitude |-> LatOf(x[3]),
                    longitude |-> LonOf(x[3]),
                    fix_satellites |-> x[7],
                    hdop |-> x[9],
                    altitude |-> x[11],
                    geoid_height |-> x[15]])

parse_gga(s) ==
    Decoded(s, <<"G", "G", "A">>, "GGA sentence not starts with $..GGA",
            do_parse_gga(s.data))

\* ------------------------------------------------------------------ RMC

\* the match on status_of_fix in the closure of do_parse_rmc
RmcStatusOfFix(c) ==
    CASE c = "A" -> "Autonomous"
      [] c = "D" -> "Differential"
      [] OTHER -> "Invalid"

\* terminated(p, char(',')) after r, keeping the value of p
Terminated(r, P(_)) == And(r, LAMBDA j : Map(And(And(Start(j), P), LAMBDA k : char(",", k)),
                                            LAMBDA x : x[1]))

do_parse_rmc(i) ==
    Map(Terminated(Terminated(Terminated(Terminated(Terminated(Terminated(Start(i),
            LAMBDA j : opt(parse_hms, j)),
            LAMBDA j : one_of({"A", "D", "V"}, j)),
            parse_lat_lon),
            LAMBDA j : opt(float, j)),
            LAMBDA j : opt(float, j)),
            LAMBDA j : opt(parse_date, j)),
        LAMBDA x : [fix_time |-> x[1],
                    fix_date |-> x[6],
                    status_of_fix |-> Some(RmcStatusOfFix(x[2])),
                    lat |-> LatOf(x[3]),
                    lon |-> LonOf(x[3]),
                    speed_over_ground |-> x[4],
                    true_course |-> x[5]])

parse_rmc(s) ==
    Decoded(s, <<"R", "M", "C">>, "RMC message should starts with $..RMC",
            do_parse_rmc(s.data))

\* ------------------------------------------------------------------ GSV

\* cond(rest_len(i)?.1 > 0, char(','))
comma_unless_at_end(i) == IF Len(i) > 0 THEN Map(char(",", i), Some) ELSE Ok(i, None)

parse_gsv_sat_info(i) ==
    Map(And(And(And(And(And(And(And(And(Start(i),
            LAMBDA j : number(U32, j)),
            LAMBDA j : char(",", j)),
            LAMBDA j : opt(LAMBDA k : number(I32, k), j)),
            LAMBDA j : char(",", j)),
            LAMBDA j : opt(LAMBDA k : number(I32, k), j)),
            LAMBDA j : char(",", j)),
            LAMBDA j : opt(LAMBDA k : number(I32, k), j)),
            comma_unless_at_end),
        LAMBDA x : [gnss_type |-> "Galileo", prn |-> x[1], elevation |-> x[3],
                    azimuth |-> x[5], snr |-> x[7]])

do_parse_gsv(i) ==
    Map(And(And(And(And(And(And(And(And(And(And(Start(i),
            LAMBDA j : number(U16, j)),
            LAMBDA j : char(",", j)),
            LAMBDA j : number(U16, j)),
            LAMBDA j : char(",", j)),
            LAMBDA j : number(U16, j)),
            LAMBDA j : char(",", j)),
            LAMBDA j : opt(parse_gsv_sat_info, j)),
            LAMBDA j : opt(parse_gsv_sat_info, j)),
            LAMBDA j : opt(parse_gsv_sat_info, j)),
            LAMBDA j : opt(parse_gsv_sat_info, j)),
        LAMBDA x : [gnss_type |-> "Galileo", number_of_sentences |-> x[1],
                    sentence_num |-> x[3], sats_in_view |-> x[5],
                    sats_info |-> <<x[7], x[8], x[9], x[10]>>])

\* the talker id match of parse_gsv
GsvGnssType(talker_id) ==
    CASE talker_id = <<"G", "P">> -> Some("Gps")
      [] talker_id = <<"G", "A">> -> Some("Galileo")
      [] talker_id \in {<<"G", "L">>, <<"G", "N">>} -> Some("Glonass")
      [] OTHER -> None

\* res.gnss_type = gnss_type, the satellites left as they were parsed
WithGnssType_of_the_sentence_only(res, gnss) == [res EXCEPT !.gnss_type = gnss]

\* res.gnss_type = gnss_type, and the same in every satellite that is there
WithGnssType(res, gnss) ==
    [res EXCEPT !.gnss_type = gnss,
                !.sats_info = <<IF IsSome(@[1]) THEN Some([@[1][1] EXCEPT !.gnss_type = gnss]) ELSE None,
                                IF IsSome(@[2]) THEN Some([@[2][1] EXCEPT !.gnss_type = gnss]) ELSE None,
                                IF IsSome(@[3]) THEN Some([@[3][1] EXCEPT !.gnss_type = gnss]) ELSE None,
                                IF IsSome(@[4]) THEN Some([@[4][1] EXCEPT !.gnss_type = gnss]) ELSE None>>]

parse_gsv(s) ==
    IF s.message_id # <<"G", "S", "V">>
    THEN ResErr("GSV sentence not starts with $..GSV")
    ELSE IF ~IsSome(GsvGnssType(s.talker_id))
    THEN ResErr("Unknown GNSS type in GSV sentence")
    ELSE Bind(MapErr(do_parse_gsv(s.data)), LAMBDA res :
             IF res.st = "Ok" THEN ResOk(WithGnssType(res.val, GsvGnssType(s.talker_id)[1]))
             ELSE res)

\* ---------------------------------------------------------------- parse

Supported == {<<"G", "G", "A">>, <<"R", "M", "C">>, <<"G", "S", "V">>,
              <<"G", "S", "A">>, <<"V", "T", "G">>, <<"G", "L", "L">>}

\* the ids other than the six that SentenceType::try_from converts
VARIABLE accepted

\* SentenceType::try_from(message_id)?: the sentence type a 3-byte id names,
\* or the error the ? of parse returns.  The function is defined in the crate
\* root.  parse matches six of its values by name, so these six ids convert;
\* what it returns for any other id is not decided here: the ids it converts
\* are the set accepted, which a call finds as it is and which holds the id
\* of the call's sentence or does not.
SentenceType_try_from(message_id) ==
    IF message_id \in Supported \cup accepted THEN ResOk(message_id)
    ELSE ResErr("SentenceType::try_from")

\* the last arm of the match in parse: msg_id => Ok(ParseResult::Unsupported(msg_id))
unsupported(msg_id) == ResOk([variant |-> "Unsupported", data |-> msg_id])

\* let data = parse_xxx(&nmea_sentence)?; Ok(ParseResult::XXX(data))
Wrap(variant, r) ==
    Bind(r, LAMBDA v :
        IF v.st = "Ok" THEN ResOk([variant |-> variant, data |-> v.val]) ELSE v)

\* the match in parse: the decoder of the sentence type, wrapped in its variant
Dispatch(s, msg_id) ==
    CASE msg_id = <<"G", "G", "A">> -> Wrap("GGA", parse_gga(s))
      [] msg_id = <<"G", "S", "V">> -> Wrap("GSV", parse_gsv(s))
      [] msg_id = <<"R", "M", "C">> -> Wrap("RMC", parse_rmc(s))
      [] msg_id = <<"G", "S", "A">> -> Wrap("GSA", parse_gsa(s))
      [] msg_id = <<"V", "T", "G">> -> Wrap("VTG", parse_vtg(s))
      [] msg_id = <<"G", "L", "L">> -> Wrap("GLL", parse_gll(s))
      [] OTHER -> unsupported(msg_id)

ChecksumMismatch == ResErr("Checksum mismatch")

\* parse, as one function of its input
parse(input) ==
    Bind(parse_nmea_sentence(input), LAMBDA f :
        IF f.st # "Ok" THEN f
        ELSE IF f.val.checksum = calc_checksum(f.val)
        THEN Bind(SentenceType_try_from(f.val.message_id), LAMBDA t :
                 IF t.st # "Ok" THEN t ELSE Dispatch(f.val, t.val))
        ELSE ChecksumMismatch)

\* =================================================================
\* The calls made on the decoder.  One behaviour is one call: an entry point
\* and its argument are drawn in Init, the call runs step by step, and the
\* value it returns (or the panic it ends in) is kept in result.
\* =================================================================

HexLower == Digits \o <<"a", "b", "c", "d", "e", "f">>
Hex2(v, table) == <<table[(v \div 16) + 1], table[(v % 16) + 1]>>

\* fields joined by commas
RECURSIVE Join(_)
Join(fields) ==
    IF Len(fields) = 0 THEN <<>>
    ELSE IF Len(fields) = 1 THEN fields[1]
    ELSE fields[1] \o <<",">> \o Join(Drop(fields, 1))

\* n commas
Commas(n) == [k \in 1..n |-> ","]

\* '$' talker id, message id, ',', payload, '*' and the two digits of the XOR
\* of the bytes between '$' and '*', with the bits of delta flipped
Sentence(talker, id, payload, delta, table) ==
    <<"$">> \o talker \o id \o <<",">> \o payload \o <<"*">>
        \o Hex2(BitXor(checksum(talker \o id \o <<",">> \o payload), delta), table)

TalkerIds == {<<"G", "P">>, <<"B", "D">>}
MessageIds == Supported \cup {<<"Z", "D", "A">>, <<"T", "X", "T">>}

\* the id parse looks up for an input, when it is none of the six: the message
\* id of the sentence the input frames as
OtherIds(i) ==
    {f.val.message_id : f \in {g \in {parse_nmea_sentence(i)} : g.st = "Ok"}}
        \ Supported

GgaPayloads == {<<",", ",", ",", ",", ",", "0", ",", ",", ",", ",", ",", ",", ",", ",">>,
     <<"0", "3", "3", "7", "4", "5", ".", "0", ",", "5", "6", "5", "0", ".", "8", "2", "3", ",", "N", ",", "0", "3", "5", "4", "8", ".", "9", "7", "7", ",", "E", ",", "1", ",", "0", "7", ",", "1", ".", "8", ",", "1", "0", "1", ".", "2", ",", "M", ",", "1", "4", ".", "7", ",", "M", ",", ",">>,
     <<"1", "2", "5", "6", "6", "0", ",", ",", ",", ",", ",", "1", ",", ",", ",", ",", ",", ",", ",", ",">>}
RmcPayloads == {<<"2", "2", "5", "4", "4", "6", ".", "3", "3", ",", "A", ",", "4", "9", "1", "6", ".", "4", "5", ",", "N", ",", "1", "2", "3", "1", "1", ".", "1", "2", ",", "W", ",", "0", "0", "0", ".", "5", ",", "0", "5", "4", ".", "7", ",", "1", "9", "1", "1", "9", "4", ",", "0", "2", "0", ".", "3", ",", "E", ",", "A">>,
     <<",", "V", ",", ",", ",", ",", ",", ",", ",", ",", ",", ",", "N">>,
     <<",", "X", ",", ",", ",", ",", ",", ",", ",", ",", ",", ",", "N">>,
     <<",", "A", ",", ",", ",", ",", ",", ",", ",", "3", "1", "0", "2", "9", "4", ",", ",", ",", "N">>}
GsvPayloads == {<<"2", ",", "1", ",", "0", "8", ",", "0", "1", ",", ",", "0", "8", "3", ",", "4", "6", ",", "0", "2", ",", "1", "7", ",", "3", "0", "8", ",", ",">>,
     <<"3", ",", "3", ",", "1", "0">>}
GsaPayloads == {<<"A", ",", "3", ",", ",", "1", "6", ",", "1", "8", ",", ",", "3", ".", "6", ",", "2", ".", "1", ",", "2", ".", "2">>,
     <<"A", ",", "1", ",", ",", ",", ",">>,
     <<"M", ",", "2", ",", "1", "6", ",", "2", ",", "1", ".", "5", ",", "2", ".", "2">>,
     <<"X", ",", "3", ",", ",", "1", ".", "0", ",", "1", ".", "0", ",", "1", ".", "0">>}
VtgPayloads == {<<"0", "5", "4", ".", "7", ",", "T", ",", "0", "3", "4", ".", "4", ",", "M", ",", "0", "0", "5", ".", "5", ",", "N", ",", "0", "1", "0", ".", "2", ",", "K">>,
     <<",", "T", ",", ",", "M", ",", ",", "N", ",", ",", "K", ",", "N">>,
     <<",", "T", ",", ",", "M", ",", ",", "N", ",", "0", "1", "0", ".", "2", ",", "K">>}
GllPayloads == {<<"4", "9", "1", "6", ".", "4", "5", ",", "N", ",", "1", "2", "3", "1", "1", ".", "1", "2", ",", "W", ",", "2", "2", "5", "4", "4", "4", ",", "A", ",">>,
     <<"4", "9", "1", "6", ".", "4", "5", ",", "N", ",", "1", "2", "3", "1", "1", ".", "1", "2", ",", "W", ",", "2", "2", "5", "4", "4", "4", ",", "A", ",", "D">>,
     <<"4", "9", "1", "6", ".", "4", "5", ",", "N", ",", "1", "2", "3", "1", "1", ".", "1", "2", ",", "W", ",", "2", "2", "5", "4", "4", "4", ",", "V", ",">>,
     <<"4", "9", "1", "6", ".", "4", "5", ",", "N", ",", "1", "2", "3", "1", "1", ".", "1", "2", ",", "W", ",", "2", "2", "5", "4", "6", "0", ",", "A", ",">>}

Payloads ==
    GgaPayloads \cup RmcPayloads \cup GsvPayloads \cup GsaPayloads
        \cup VtgPayloads \cup GllPayloads \cup {<<>>}

\* the bits flipped in the declared checksum: none, bit 0, and the bits of ','
Deltas == {0, 1, 44}

\* what follows the checksum digits
Tails == {<<>>, <<"\r", "\n">>}

\* sentences of the source's own tests and documentation
KnownSentences == {<<"$", "G", "P", "G", "G", "A", ",", ",", ",", ",", ",", ",", "0", ",", ",", ",", ",", ",", ",", ",", ",", "*", "6", "6">>,
     <<"$", "G", "P", "G", "G", "A", ",", "1", "3", "3", "6", "0", "5", ".", "0", ",", "5", "5", "2", "1", ".", "7", "5", "9", "4", "6", ",", "N", ",", "0", "3", "7", "3", "1", ".", "9", "3", "7", "6", "9", ",", "E", ",", "0", ",", "0", "0", ",", ",", ",", "M", ",", ",", "M", ",", ",", "*", "4", "F">>,
     <<"$", "G", "P", "R", "M", "C", ",", "2", "2", "5", "4", "4", "6", ".", "3", "3", ",", "A", ",", "4", "9", "1", "6", ".", "4", "5", ",", "N", ",", "1", "2", "3", "1", "1", ".", "1", "2", ",", "W", ",", "0", "0", "0", ".", "5", ",", "0", "5", "4", ".", "7", ",", "1", "9", "1", "1", "9", "4", ",", "0", "2", "0", ".", "3", ",", "E", ",", "A", "*", "2", "B">>,
     <<"$", "G", "P", "R", "M", "C", ",", ",", "V", ",", ",", ",", ",", ",", ",", ",", ",", ",", ",", "N", "*", "5", "3">>,
     <<"$", "G", "P", "G", "S", "A", ",", "A", ",", "3", ",", ",", ",", ",", ",", ",", "1", "6", ",", "1", "8", ",", ",", "2", "2", ",", "2", "4", ",", ",", ",", "3", ".", "6", ",", "2", ".", "1", ",", "2", ".", "2", "*", "3", "C">>,
     <<"$", "G", "P", "G", "S", "A", ",", "A", ",", "1", ",", ",", ",", ",", "*", "3", "2">>,
     <<"$", "G", "P", "V", "T", "G", ",", ",", "T", ",", ",", "M", ",", ",", "N", ",", ",", "K", ",", "N", "*", "2", "C">>,
     <<"$", "G", "P", "V", "T", "G", ",", "3", "6", "0", ".", "0", ",", "T", ",", "3", "4", "8", ".", "7", ",", "M", ",", "0", "0", "0", ".", "0", ",", "N", ",", "0", "0", "0", ".", "0", ",", "K", "*", "4", "3">>,
     <<"$", "G", "P", "V", "T", "G", ",", "0", "5", "4", ".", "7", ",", "T", ",", "0", "3", "4", ".", "4", ",", "M", ",", "0", "0", "5", ".", "5", ",", "N", ",", "0", "1", "0", ".", "2", ",", "K", "*", "4", "8">>,
     <<"$", "G", "P", "G", "G", "A", ",", "0", "3", "3", "7", "4", "5", ".", "0", ",", "5", "6", "5", "0", ".", "8", "2", "3", "4", "4", ",", "N", ",", "0", "3", "5", "4", "8", ".", "9", "7", "7", "8", ",", "E", ",", "1", ",", "0", "7", ",", "1", ".", "8", ",", "1", "0", "1", ".", "2", ",", "M", ",", "1", "4", ".", "7", ",", "M", ",", ",", "*", "5", "7">>}

FramedSentences ==
    {Sentence(t, id, p, d, HexUpper) \o tail :
        t \in TalkerIds, id \in MessageIds, p \in Payloads, d \in Deltas, tail \in Tails}
    \cup {Sentence(<<"G", "P">>, id, p, 0, HexLower) : id \in MessageIds, p \in GsaPayloads}

\* inputs that do not frame: no '$', no ',', no '*', cut short, bad checksum digits
Malformed == {<<>>,
     <<"$">>,
     <<"$", "G", "P">>,
     <<"$", "G", "P", "G", "S">>,
     <<"$", "G", "P", "G", "S", "A">>,
     <<"G", "P", "G", "S", "A", ",", "A", ",", "1", ",", ",", ",", ",", "*", "3", "2">>,
     <<"$", "G", "P", "G", "S", "A", "A", ",", "1", ",", ",", ",", ",", "*", "3", "2">>,
     <<"$", "G", "P", "G", "S", "A", ",", "A", ",", "1", ",", ",", ",", ",">>,
     <<"$", "G", "P", "G", "S", "A", ",", "A", ",", "1", ",", ",", ",", ",", "*">>,
     <<"$", "G", "P", "G", "S", "A", ",", "A", ",", "1", ",", ",", ",", ",", "*", "3">>,
     <<"$", "G", "P", "G", "S", "A", ",", "A", ",", "1", ",", ",", ",", ",", "*", "3", "Z">>,
     <<"$", "G", "P", "G", "S", "A", ",", "A", ",", "1", ",", ",", ",", ",", "*", "Z", "Z">>,
     <<"$", "G", "P", "G", "S", "A", ",", "A", ",", "1", ",", ",", ",", ",", "*", "+", "2">>,
     <<"$", "G", "P", "G", "S", "A", ",", "A", ",", "1", ",", ",", ",", ",", "*", "-", "2">>,
     <<"$", "G", "P", "G", "S", "A", ",", "A", ",", "1", ",", ",", ",", ",", "*", "*", "3", "2">>}

\* how far below and above the length ceiling the padded inputs go
Near == 2
MaxOver == 2
PaddedLengths == (MaxSentenceLen - Near)..(MaxSentenceLen + MaxOver)

\* inputs of a length n near the ceiling: a sentence whose payload is filled
\* with empty fields (its checksum right, or off by delta), a sentence followed
\* by filler, and filler alone
PadBase == {[id |-> <<"G", "G", "A">>, payload |-> <<",", ",", ",", ",", ",", "0", ",", ",", ",", ",", ",", ",", ",", ",">>],
            [id |-> <<"G", "S", "A">>, payload |-> <<"A", ",", "1", ",">>],
            [id |-> <<"Z", "D", "A">>, payload |-> <<"1">>]}
Padded(n) ==
    {Sentence(<<"G", "P">>, b.id, b.payload \o Commas(n - 10 - Len(b.payload)), d, HexUpper) :
        b \in PadBase, d \in {0, 1}}
    \cup {LET x == Sentence(<<"G", "P">>, b.id, b.payload, 0, HexUpper)
          IN  x \o Commas(n - Len(x)) : b \in PadBase}
    \cup {Commas(n)}

\* the two bytes after '*': hex digits of both cases, signs, a letter that is
\* no hex digit and a space
ChecksumBytes == {"0", "f", "F", "+", "-", "g", " "}
ChecksumTexts ==
    {<<"$", "G", "P", "G", "S", "A", ",", "A", ",", "1", ",", ",", ",", ",", "*", a, b>> \o tail :
        a \in ChecksumBytes, b \in ChecksumBytes, tail \in Tails}

\* sentences with a '*' among the bytes of the talker id or of the message id
StarInIds == {<<"$", "G", "*", "G", "S", "A", ",", "A", ",", "1", ",", ",", ",", ",", "*", "3", "2">>,
              <<"$", "G", "*", "G", "S", "A", ",", "A", ",", "1", ",", ",", ",", ",", "*", "3", "2", "\r", "\n">>,
              <<"$", "G", "P", "G", "*", "A", ",", "A", ",", "1", ",", ",", ",", ",", "*", "3", "2">>,
              <<"$", "*", "*", "*", "*", "*", ",", "*", "0", "0">>}

ParseInputs ==
    FramedSentences \cup KnownSentences \cup Malformed \cup ChecksumTexts \cup StarInIds
        \cup UNION {Padded(n) : n \in PaddedLengths}

\* ---- time fields, as parse_hms is handed them: HHMMSS[.fff] and what follows

HourTexts == {<<"0", "0">>, <<"1", "2">>, <<"2", "3">>, <<"2", "4">>}
MinuteTexts == {<<"0", "0">>, <<"5", "9">>, <<"6", "0">>}
SecondTexts == {<<"0", "0">>, <<"1", "9">>, <<"5", "9">>, <<"6", "0">>, <<"6", "1">>, <<"1", "9", ".", "5">>, <<"4", "6", ".", "3", "3">>, <<"5", "9", ".", "9", "9", "9">>, <<"-", "1">>, <<"-", "0">>, <<"5">>,
                <<"1", "E", "1">>, <<"1", "E">>, <<"N", "a", "N">>, <<"i", "n", "f">>}
HmsInputs ==
    {h \o m \o sec \o <<",">> : h \in HourTexts, m \in MinuteTexts, sec \in SecondTexts}
    \cup {<<>>, <<"1", "2">>, <<"1", "2", "5", "6">>, <<"1", "2", "5", "6", "1", "9">>, <<"1", "X", "5", "6", "1", "9", ",">>, <<"1", "2", "X", "6", "1", "9", ",">>, <<"1", "2", "5", "6", ",">>, <<"1", "2", "5", "6", "X", "X", ",">>}

\* ---- date fields DDMMYY

DayTexts == {<<"0", "0">>, <<"0", "1">>, <<"1", "9">>, <<"2", "8">>, <<"2", "9">>, <<"3", "0">>, <<"3", "1">>, <<"3", "2">>}
MonthTexts == {<<"0", "0">>, <<"0", "1">>, <<"0", "2">>, <<"0", "4">>, <<"1", "1">>, <<"1", "2">>, <<"1", "3">>}
YearTexts == {<<"0", "0">>, <<"9", "4">>, <<"9", "6">>}
DateInputs ==
    {d \o m \o y \o <<",">> : d \in DayTexts, m \in MonthTexts, y \in YearTexts}
    \cup {<<>>, <<"1", "9", "1", "1">>, <<"1", "9", "1", "1", "9">>, <<"1", "X", "1", "1", "9", "4", ",">>, <<"1", "9", "1", "X", "9", "4", ",">>, <<"1", "9", "1", "1", "9", "X", ",">>}

\* a sentence as the tests hand it to a decoder: no checksum to speak of
SentenceOf(id, data) ==
    [talker_id |-> <<"G", "P">>, message_id |-> id, data |-> data, checksum |-> 0]

\* ---- VTG payloads course,T,magnetic,M,knots,N,kmh,K

CourseTexts == {<<>>, <<"0", "5", "4", ".", "7">>, <<"1", "E", "2">>, <<"1", "E">>, <<"N", "a", "N">>}
KnotsTexts == {<<>>, <<"0", "0", "5", ".", "5">>, <<"0", "0", "0", ".", "0">>}
KmhTexts == {<<>>, <<"0", "1", "0", ".", "2">>, <<"0", "0", "0", ".", "0">>}
VtgFormInputs ==
    {Join(<<c, <<"T">>, m, <<"M">>, kn, <<"N">>, km, <<"K">>>>) :
        c \in CourseTexts, m \in CourseTexts, kn \in KnotsTexts, km \in KmhTexts}
VtgInputs == VtgFormInputs \cup VtgPayloads \cup {<<>>, <<",", "T", ",", ",", "M", ",", ",", "N">>, <<"0", "5", "4", ".", "7", ",", "T", ",", "0", "3", "4", ".", "4", ",", "M", ",", "0", "0", "5", ".", "5", ",", "0", "1", "0", ".", "2", ",", "K">>, <<"X", ",", "T", ",", ",", "M", ",", ",", "N", ",", ",", "K">>}

\* ---- GLL payloads lat,N/S,lon,E/W,time,validity and what follows

GllLatLonTexts == {<<"4", "9", "1", "6", ".", "4", "5", ",", "N", ",", "1", "2", "3", "1", "1", ".", "1", "2", ",", "W">>, <<"0", "1", "3", "0", ".", "5", ",", "S", ",", "0", "0", "2", "1", "5", ".", "2", "5", ",", "E">>, <<",", ",", ",">>, <<"4", "9", "1", "6", ".", "4", "5", ",", "N">>, <<"4", "9", "1", "6", ".", "4", "5", ",", "X", ",", "1", "2", "3", "1", "1", ".", "1", "2", ",", "W">>}
GllTimeTexts == {<<"2", "2", "5", "4", "4", "4">>, <<"2", "2", "5", "4", "4", "4", ".", "5", "0">>, <<>>, <<"2", "5", "6", "0", "0", "0">>, <<"2", "2", "6", "0", "0", "0">>, <<"2", "2", "5", "4", "6", "0">>}
GllFlagTexts == {<<"A">>, <<"V">>, <<>>, <<"D">>}
\* after the validity flag: nothing, an empty field, a mode letter as the last
\* field, a mode letter and a further comma
GllModeLetters == {"A", "D", "E", "M", "N", "S"}
GllEndings ==
    {<<>>, <<",">>} \cup {<<",", c>> : c \in GllModeLetters}
        \cup {<<",", c, ",">> : c \in GllModeLetters}
GllInputs ==
    {Join(<<ll, t, f>>) \o e :
        ll \in GllLatLonTexts, t \in GllTimeTexts, f \in GllFlagTexts, e \in GllEndings}

\* ---- GSA payloads mode1,mode2,<n PRN fields>,PDOP,HDOP,VDOP

MaxPrnFields == 14

\* the k-th of n PRN fields under a pattern
PrnPatterns == {"empty", "full", "odd", "last"}
PrnField(pattern, k, n) ==
    LET prn == <<Digits[(k \div 10) + 2], Digits[(k % 10) + 1]>> IN
    CASE pattern = "empty" -> <<>>
      [] pattern = "full" -> prn
      [] pattern = "odd" -> IF k % 2 = 1 THEN prn ELSE <<>>
      [] OTHER -> IF k = n THEN prn ELSE <<>>
PrnFieldLists == {[k \in 1..n |-> PrnField(pat, k, n)] : n \in 0..MaxPrnFields, pat \in PrnPatterns}

PdopTexts == {<<"3", ".", "6">>, <<"2">>, <<"1", "0">>}
HdopTexts == {<<"2", ".", "1">>, <<"1">>}
VdopTexts == {<<"2", ".", "2">>, <<"2">>}
GsaFormInputs ==
    {Join(<<<<m1>>, <<m2>>>> \o prns \o <<p, h, v>>) :
        m1 \in {"M", "A"}, m2 \in {"1", "3"}, prns \in PrnFieldLists,
        p \in PdopTexts, h \in HdopTexts, v \in VdopTexts}

\* payloads whose DOP fields are empty, whole numbers or decimals, after up to
\* MaxDopPrnFields PRN fields; and mode1,mode2 followed by commas alone
MaxDopPrnFields == 3
MaxTailCommas == 4
DopTexts == {<<>>, <<"2", ".", "1">>, <<"2">>, <<"2", "e", "1">>}
GsaDopInputs ==
    {Join(<<<<"A">>, <<"3">>>> \o prns \o <<p, h, v>>) :
        prns \in {l \in PrnFieldLists : Len(l) <= MaxDopPrnFields},
        p \in DopTexts, h \in DopTexts, v \in DopTexts}
GsaCommaInputs == {<<"M", ",", "1">> \o Commas(n) : n \in 0..MaxTailCommas}
GsaInputs == GsaFormInputs \cup GsaPayloads \cup GsaDopInputs \cup GsaCommaInputs

\* ---- GSV payloads sentences,sentence,in view,<blocks PRN,elevation,azimuth,SNR>

\* a block with every field, with zero values, with empty fields after the
\* PRN, without a PRN, and with an elevation that is no number
GsvBlocks == {<<"0", "1", ",", "4", "0", ",", "0", "8", "3", ",", "4", "6">>,
              <<"1", "2", ",", "0", ",", "0", "0", "0", ",", "0", "0">>,
              <<"0", "2", ",", ",", "3", "0", "8", ",">>,
              <<",", ",", ",">>,
              <<"0", "4", ",", "x", ",", "0", "8", "3", ",", "4", "6">>}
MaxGsvBlocks == 5
GsvBlockLists == UNION {[1..n -> GsvBlocks] : n \in 0..MaxGsvBlocks}
GsvHead == <<"2", ",", "1", ",", "0", "8", ",">>
GsvFormInputs == {GsvHead \o Join(blocks) : blocks \in GsvBlockLists}
GsvInputs ==
    GsvFormInputs \cup GsvPayloads
        \cup {<<"2", ",", "1", ",", "0", "8", ",", "0", "1", ",", "4", "0", ",", "0", "8", "3">>,
              <<"2", ",", "1", ",", "0", "8", ",", "0", "1", ",", "4", "0", ",", "0", "8", "3", ",", "4", "6", ",">>}

\* the talker ids parse_gsv is called with
GsvTalkerIds == {<<"G", "P">>, <<"G", "A">>, <<"G", "L">>, <<"G", "N">>, <<"B", "D">>, <<"Q", "Z">>}
GsvSentences ==
    {SentenceOf(<<"G", "S", "V">>, d) : d \in GsvInputs}
    \cup {[SentenceOf(<<"G", "S", "V">>, GsvHead \o Join(blocks)) EXCEPT !.talker_id = t] :
             t \in GsvTalkerIds, blocks \in {l \in GsvBlockLists : Len(l) <= 2}}

\* ---- GGA payloads time,lat,N/S,lon,E/W,quality,satellites,HDOP,altitude,
\* unit,geoid height,unit and two more fields

GgaTimeTexts == {<<>>, <<"0", "3", "3", "7", "4", "5", ".", "0">>, <<"0", "0", "0", "0", "0", "0">>,
                 <<"1", "2", "5", "6", "6", "0">>, <<"1", "2">>}
GgaLatLonTexts == {<<",", ",", ",">>,
                   <<"5", "6", "5", "0", ".", "8", "2", ",", "N", ",", "0", "3", "5", "4", "8", ".", "9", "7", ",", "E">>,
                   <<"0", "0", "0", "0", ".", "0", ",", "S", ",", "0", "0", "0", "0", "0", ".", "0", ",", "W">>,
                   <<"5", "6", "5", "0", ".", "8", "2", ",", "N", ",", ",">>,
                   <<",", ",", "0", "3", "5", "4", "8", ".", "9", "7", ",", "E">>}
GgaQualityTexts == {<<>>, <<"0">>, <<"1">>, <<"8">>, <<"9">>, <<"A">>}
GgaSatsTexts == {<<>>, <<"0", "7">>, <<"0">>, <<"x">>}
GgaHdopTexts == {<<>>, <<"1", ".", "8">>, <<"0">>, <<"0", ".", "0">>}
GgaAltitudeTexts == {<<>>, <<"1", "0", "1", ".", "2">>, <<"0">>, <<"-", "4", ".", "5">>, <<"x">>, <<"1", "E", "2">>, <<"-", "N", "a", "N">>}
GgaGeoidTexts == {<<>>, <<"1", "4", ".", "7">>, <<"0", ".", "0">>}
GgaUnitTexts == {<<"M">>, <<>>, <<"F">>, <<"m">>}
GgaEndings == {<<>>, <<",", ",">>}

GgaPayload(time, latlon, quality, sats, hdop, altitude, unit1, geoid, unit2, ending) ==
    Join(<<time, latlon, quality, sats, hdop, altitude, unit1, geoid, unit2>>) \o ending

GgaInputs ==
    {GgaPayload(t, ll, q, s, s, s, <<"M">>, s, <<"M">>, <<",", ",">>) :
        t \in GgaTimeTexts, ll \in GgaLatLonTexts, q \in GgaQualityTexts,
        s \in {<<>>, <<"0">>}}
    \cup {GgaPayload(<<>>, ll, <<"1">>, s, h, a, <<"M">>, g, <<"M">>, e) :
             ll \in {<<",", ",", ",">>}, s \in GgaSatsTexts, h \in GgaHdopTexts,
             a \in GgaAltitudeTexts, g \in GgaGeoidTexts, e \in GgaEndings}
    \cup {GgaPayload(t, ll, <<"1">>, <<"0", "7">>, <<"1", ".", "8">>, a, u1, g, u2, e) :
             t \in {<<>>, <<"0", "3", "3", "7", "4", "5", ".", "0">>},
             ll \in {<<",", ",", ",">>,
                      <<"5", "6", "5", "0", ".", "8", "2", ",", "N", ",", "0", "3", "5", "4", "8", ".", "9", "7", ",", "E">>},
             a \in {<<>>, <<"1", "0", "1", ".", "2">>}, u1 \in GgaUnitTexts,
             g \in {<<>>, <<"1", "4", ".", "7">>}, u2 \in GgaUnitTexts, e \in GgaEndings}
    \cup GgaPayloads
GgaSentences == {SentenceOf(<<"G", "G", "A">>, d) : d \in GgaInputs}

\* ---- RMC payloads time,status,lat,N/S,lon,E/W,speed,course,date and what
\* follows the date: nothing, an empty field, the magnetic variation and mode

RmcTimeTexts == {<<>>, <<"2", "2", "5", "4", "4", "6", ".", "3", "3">>, <<"1", "2", "5", "6", "6", "0">>}
RmcStatusTexts == {<<"A">>, <<"D">>, <<"V">>, <<"X">>, <<"a">>, <<>>}
RmcLatLonTexts == {<<",", ",", ",">>,
                   <<"4", "9", "1", "6", ".", "4", "5", ",", "N", ",", "1", "2", "3", "1", "1", ".", "1", "2", ",", "W">>}
RmcSpeedTexts == {<<>>, <<"0", "0", "0", ".", "5">>}
RmcCourseTexts == {<<>>, <<"0", "5", "4", ".", "7">>}
RmcDateTexts == {<<>>, <<"1", "9", "1", "1", "9", "4">>, <<"3", "1", "0", "2", "9", "4">>}
RmcTails == {<<>>, <<",">>, <<",", "0", "2", "0", ".", "3", ",", "E", ",", "A">>,
             <<",", ",", ",", "N">>, <<",", "x">>}
RmcInputs ==
    {Join(<<t, s, ll, v, c, d>>) \o tail :
        t \in RmcTimeTexts, s \in RmcStatusTexts, ll \in RmcLatLonTexts,
        v \in RmcSpeedTexts, c \in RmcCourseTexts, d \in RmcDateTexts,
        tail \in RmcTails}
    \cup RmcPayloads
RmcSentences == {SentenceOf(<<"R", "M", "C">>, d) : d \in RmcInputs}

VtgSentences == {SentenceOf(<<"V", "T", "G">>, d) : d \in VtgInputs}
GllSentences == {SentenceOf(<<"G", "L", "L">>, d) : d \in GllInputs}
GsaSentences == {SentenceOf(<<"G", "S", "A">>, d) : d \in GsaInputs}

\* =================================================================
\* The state machine
\* =================================================================

VARIABLES
    fn,         \* the entry point called
    input,      \* its argument: the bytes, or the NmeaSentence of a decoder
    pc,         \* where the call is: "call", inside parse "framed", "lookup",
                \* "dispatch", and "done" once it has returned or panicked
    sentence,   \* parse: the NmeaSentence parse_nmea_sentence returned
    msg_id,     \* parse: the SentenceType the message id converted to
    ran,        \* the functions that have run, in order
    result      \* the value returned, or the panic

vars == <<fn, input, pc, sentence, msg_id, ran, result, accepted>>

Nothing == [st |-> "None"]

Init ==
    /\ \/ fn = "parse" /\ input \in ParseInputs
       \/ fn = "parse_hms" /\ input \in HmsInputs
       \/ fn = "parse_date" /\ input \in DateInputs
       \/ fn = "parse_vtg" /\ input \in VtgSentences
       \/ fn = "parse_gll" /\ input \in GllSentences
       \/ fn = "parse_gsa" /\ input \in GsaSentences
       \/ fn = "parse_gsv" /\ input \in GsvSentences
       \/ fn = "parse_gga" /\ input \in GgaSentences
       \/ fn = "parse_rmc" /\ input \in RmcSentences
    /\ accepted \in (IF fn = "parse" THEN SUBSET OtherIds(input) ELSE {{}})
    /\ pc = "call"
    /\ sentence = Nothing
    /\ msg_id = <<>>
    /\ ran = <<>>
    /\ result = Nothing

Return(r) == result' = r /\ pc' = "done"

\* parse: let nmea_sentence = parse_nmea_sentence(xs)?;
Frame ==
    /\ fn = "parse" /\ pc = "call"
    /\ ran' = Append(ran, "parse_nmea_sentence")
    /\ \E f \in {parse_nmea_sentence(input)} :
          IF f.st = "Ok"
          THEN sentence' = f.val /\ pc' = "framed" /\ UNCHANGED result
          ELSE Return(f) /\ UNCHANGED sentence
    /\ UNCHANGED <<fn, input, msg_id, accepted>>

\* parse: if nmea_sentence.checksum == nmea_sentence.calc_checksum() .. else Err
VerifyChecksum ==
    /\ pc = "framed"
    /\ ran' = Append(ran, "calc_checksum")
    /\ IF sentence.checksum = calc_checksum(sentence)
       THEN pc' = "lookup" /\ UNCHANGED result
       ELSE Return(ChecksumMismatch)
    /\ UNCHANGED <<fn, input, sentence, msg_id, accepted>>

\* parse: match SentenceType::try_from(nmea_sentence.message_id)?
Lookup ==
    /\ pc = "lookup"
    /\ ran' = Append(ran, "try_from")
    /\ \E t \in {SentenceType_try_from(sentence.message_id)} :
          IF t.st = "Ok"
          THEN msg_id' = t.val /\ pc' = "dispatch" /\ UNCHANGED result
          ELSE Return(t) /\ UNCHANGED msg_id
    /\ UNCHANGED <<fn, input, sentence, accepted>>

\* parse: the arm of the match
Decode ==
    /\ pc = "dispatch"
    /\ ran' = Append(ran, IF msg_id \in Supported THEN "decoder" ELSE "unsupported")
    /\ Return(Dispatch(sentence, msg_id))
    /\ UNCHANGED <<fn, input, sentence, msg_id, accepted>>

\* a direct call of one decoder
Direct(name, r) ==
    /\ fn = name /\ pc = "call"
    /\ ran' = Append(ran, name)
    /\ Return(r)
    /\ UNCHANGED <<fn, input, sentence, msg_id, accepted>>

CallParseHms == Direct("parse_hms", parse_hms(input))
CallParseDate == Direct("parse_date", parse_date(input))
CallParseVtg == Direct("parse_vtg", parse_vtg(input))
CallParseGll == Direct("parse_gll", parse_gll(input))
CallParseGsa == Direct("parse_gsa", parse_gsa(input))
CallParseGsv == Direct("parse_gsv", parse_gsv(input))
CallParseGga == Direct("parse_gga", parse_gga(input))
CallParseRmc == Direct("parse_rmc", parse_rmc(input))

Next ==
    \/ Frame
    \/ VerifyChecksum
    \/ Lookup
    \/ Decode
    \/ CallParseHms
    \/ CallParseDate
    \/ CallParseVtg
    \/ CallParseGll
    \/ CallParseGsa
    \/ CallParseGsv
    \/ CallParseGga
    \/ CallParseRmc

Spec == Init /\ [][Next]_vars

\* parse, run step by step, returns what parse returns as one function
StepsAgree == (fn = "parse" /\ pc = "done") => result = parse(input)


\* =================================================================
\* The properties
\* =================================================================

\* the set of the elements of a sequence
Range(s) == {s[k] : k \in 1..Len(s)}

\* the comma-separated fields of a payload
RECURSIVE Fields(_)
Fields(s) ==
    Bind(Find(s, ","), LAMBDA k :
        IF k = 0 THEN <<s>> ELSE <<Take(s, k - 1)>> \o Fields(Drop(s, k)))

\* the XOR of talker id ++ message id ++ ',' ++ payload
XorOfSentence(s) == checksum(s.talker_id \o s.message_id \o <<",">> \o s.data)

\* parse has returned, and its input had framed
ParseReturnedFramed == fn = "parse" /\ pc = "done" /\ sentence # Nothing

\* ------------------------------------------------------------------ C1

\* C1: for every input that frames, parse returns a decoded record only if
\* the XOR of talker id ++ message id ++ ',' ++ payload equals the declared
\* checksum; when they differ parse returns "Checksum mismatch" and neither
\* the message-id lookup nor a decoder has run.
C1_ChecksumGate ==
    ParseReturnedFramed =>
        /\ result.st = "Ok" => XorOfSentence(sentence) = sentence.checksum
        /\ XorOfSentence(sentence) # sentence.checksum =>
               /\ result = ResErr("Checksum mismatch")
               /\ Range(ran) \cap {"try_from", "decoder", "unsupported"} = {}

\* a framed sentence of an unknown message id, its checksum wrong, refused
C1_Witness ==
    /\ ParseReturnedFramed
    /\ XorOfSentence(sentence) # sentence.checksum
    /\ sentence.message_id \notin Supported
    /\ result = ResErr("Checksum mismatch")
    /\ ran = <<"parse_nmea_sentence", "calc_checksum">>

\* ------------------------------------------------------------------ C2

\* the bytes a payload byte is replaced by
FlipBytes == {"*", ",", "0", "A", "V", "\r"}

\* the positions of the payload in a framed input: after "$TTMMM," and before
\* the first '*'
PayloadPositions(s) == 8..(6 + Find(Drop(s, 7), "*"))

Replace(s, k, c) == [s EXCEPT ![k] = c]

\* C2 (as amended): for every sentence parse accepts, replacing any single
\* byte of the payload with a different byte other than '*' makes parse fail
\* with "Checksum mismatch".
C2_FlipIsMismatch ==
    (fn = "parse" /\ pc = "done" /\ result.st = "Ok") =>
        \A k \in PayloadPositions(input) : \A c \in FlipBytes \ {"*", input[k]} :
            parse(Replace(input, k, c)) = ResErr("Checksum mismatch")

\* an accepted sentence with a payload, and a replaced byte that is refused
C2_Witness ==
    /\ fn = "parse" /\ pc = "done" /\ result.st = "Ok"
    /\ Len(sentence.data) > 1
    /\ input[8] # ","
    /\ parse(Replace(input, 8, ",")) = ResErr("Checksum mismatch")

\* C2 (as claimed): for every sentence parse accepts, replacing any single
\* byte of the payload with any different byte makes parse fail with
\* "Checksum mismatch".
C2_AnyFlipIsMismatch ==
    (fn = "parse" /\ pc = "done" /\ result.st = "Ok") =>
        \A k \in PayloadPositions(input) : \A c \in FlipBytes \ {input[k]} :
            parse(Replace(input, k, c)) = ResErr("Checksum mismatch")

\* ------------------------------------------------------------------ C3

\* C3: parse returns "Too long message" for every input longer than 102
\* bytes, with nothing framed, and for no input of 102 bytes or fewer.
C3_Oversized ==
    (fn = "parse" /\ pc = "done") =>
        /\ Len(input) > 102 =>
               /\ result = ResErr("Too long message")
               /\ sentence = Nothing
               /\ ran = <<"parse_nmea_sentence">>
        /\ Len(input) <= 102 => result # ResErr("Too long message")

\* an oversized input that would frame, its checksum right, refused
C3_Witness ==
    /\ fn = "parse" /\ pc = "done"
    /\ Len(input) > 102
    /\ IsOk(do_parse_nmea_sentence(input))
    /\ XorOfSentence(do_parse_nmea_sentence(input).val)
           = do_parse_nmea_sentence(input).val.checksum
    /\ result = ResErr("Too long message")

\* ------------------------------------------------------------------ C4

\* What parse itself does with an id that is none of the six (C4 is about this
\* and about SentenceType::try_from): for every framed sentence with a correct
\* checksum and such an id, parse returns Ok(Unsupported(id)) when try_from
\* converts the id and the error of try_from when it does not, whatever the
\* payload.
UnsupportedWhenConverted ==
    (ParseReturnedFramed /\ XorOfSentence(sentence) = sentence.checksum
        /\ sentence.message_id \notin {<<"G", "G", "A">>, <<"R", "M", "C">>,
               <<"G", "S", "V">>, <<"G", "S", "A">>, <<"V", "T", "G">>, <<"G", "L", "L">>})
    => /\ ran[Len(ran)] \in {"try_from", "unsupported"}
       /\ ran[Len(ran)] = "unsupported" =>
              result = ResOk([variant |-> "Unsupported", data |-> sentence.message_id])
       /\ ran[Len(ran)] = "try_from" => result.st = "Err"

\* ------------------------------------------------------------------ C5

\* a time field HHMM and seconds up to the ',' whose hour is 24 or more, whose
\* minute is 60 or more, or whose seconds are negative or 60 or more
OutOfRangeTime(i) ==
    /\ Len(i) >= 6 /\ Find(i, ",") > 5
    /\ \A k \in 1..4 : IsDigit(i[k])
    /\ \/ DecVal(SubSeq(i, 1, 2)) >= 24
       \/ DecVal(SubSeq(i, 3, 4)) >= 60
       \/ i[5] = "-"
       \/ IsDigit(i[5]) /\ IsDigit(i[6]) /\ DecVal(SubSeq(i, 5, 6)) >= 60

\* C5: parse_hms always ends in a time or in an error returned to the caller,
\* never in a panic; a field with hour >= 24, minute >= 60, negative seconds
\* or seconds of 60 or more yields an error.
C5_TimeOrError ==
    (fn = "parse_hms" /\ pc = "done") =>
        /\ result.st \in {"Ok", "Error", "Failure"}
        /\ OutOfRangeTime(input) => result.st \in {"Error", "Failure"}

\* ------------------------------------------------------------------ C6

\* C6: for every 6-digit date field DDMMYY with month in 1..12 and day in
\* 1..31, parse_date returns the date of that day, month and two-digit year,
\* whether or not the calendar has it; with month or day outside these ranges
\* it returns an error.
C6_DateByRangeOnly ==
    (fn = "parse_date" /\ pc = "done" /\ Len(input) >= 6
        /\ \A k \in 1..6 : IsDigit(input[k]))
    => IF DecVal(SubSeq(input, 3, 4)) \in 1..12 /\ DecVal(SubSeq(input, 1, 2)) \in 1..31
       THEN /\ result.st = "Ok"
            /\ result.val = [year |-> DecVal(SubSeq(input, 5, 6)),
                             month |-> DecVal(SubSeq(input, 3, 4)),
                             day |-> DecVal(SubSeq(input, 1, 2))]
       ELSE result.st = "Error"

\* ------------------------------------------------------------------ C7

\* the number a field of digits and at most one '.' denotes, with a '-' in
\* front or without: its digits over ten to the number of digits after the '.'
NumberText(t) ==
    Rat(Len(t) > 0 /\ t[1] = "-", DecVal(SelectSeq(t, IsDigit)),
        Pow10(Cardinality({k \in 1..Len(t) : \E j \in 1..(k - 1) : t[j] = "."})))

\* course,T,magnetic,M,knots,N,kmh,K
VtgForm(f) ==
    /\ Len(f) = 8
    /\ f[2] = <<"T">> /\ f[4] = <<"M">> /\ f[6] = <<"N">> /\ f[8] = <<"K">>

\* C7: for every VTG payload course,T,magnetic,M,knots,N,kmh,K that parse_vtg
\* accepts, speed_over_ground is the knots value when the knots field is not
\* empty, the km/h value divided by 1.852 when only the km/h field is not
\* empty, and absent only when both are empty.
C7_VtgSpeed ==
    (fn = "parse_vtg" /\ pc = "done" /\ result.st = "Ok"
        /\ VtgForm(Fields(input.data)))
    => result.val.speed_over_ground =
           (IF Fields(input.data)[5] # <<>>
            THEN Some(NumberText(Fields(input.data)[5]))
            ELSE IF Fields(input.data)[7] # <<>>
            THEN Some(FloatDiv(NumberText(Fields(input.data)[7]), 1852, 1000))
            ELSE None)

\* ------------------------------------------------------------------ C8

\* the first four fields are a latitude, N or S, a longitude, E or W
FullLatLon(f) ==
    /\ Len(f) >= 4
    /\ IsOk(do_parse_lat_lon(Join(<<f[1], f[2], f[3], f[4]>>)))
    /\ do_parse_lat_lon(Join(<<f[1], f[2], f[3], f[4]>>)).rest = <<>>

\* the field is a time of day: hour below 24, minute and second below 60
ValidTime(t) == IsOk(parse_hms(t \o <<",">>)) /\ parse_hms(t \o <<",">>).rest = <<",">>

\* lat,N/S,lon,E/W,time,A and what follows
ValidGllHead(f) ==
    Len(f) >= 6 /\ FullLatLon(f) /\ ValidTime(f[5]) /\ f[6] = <<"A">>

\* the mode a letter stands for
ModeOfLetter(c) ==
    CASE c = "A" -> "Autonomous"
      [] c = "D" -> "Differential"
      [] c = "E" -> "EstimatedMode"
      [] c = "M" -> "ManualInput"
      [] OTHER -> "DataNotValid"

\* C8: for every GLL payload with valid lat/lon, time and validity flag 'A':
\* with a mode letter as the last field the decode succeeds with the mode of
\* that letter (DataNotValid for 'N' and for any other letter); with nothing
\* after the validity flag it succeeds with the mode absent.
C8_GllMode ==
    (fn = "parse_gll" /\ pc = "done" /\ ValidGllHead(Fields(input.data))) =>
        /\ (Len(Fields(input.data)) = 7 /\ Len(Fields(input.data)[7]) = 1) =>
               /\ result.st = "Ok"
               /\ result.val.mode = Some(ModeOfLetter(Fields(input.data)[7][1]))
        /\ Len(Fields(input.data)) = 6 =>
               /\ result.st = "Ok"
               /\ result.val.mode = None

\* ------------------------------------------------------------------ C9

\* C9: parse_gll returns a record only when the lat/lon has its four
\* subfields, the time is valid and the validity flag is 'A'; a payload whose
\* flag is anything else, whose lat/lon fields are all empty or whose time
\* field is empty returns an error.
C9_GllRequires ==
    (fn = "parse_gll" /\ pc = "done") =>
        /\ result.st = "Ok" => ValidGllHead(Fields(input.data))
        /\ (/\ Len(Fields(input.data)) >= 6
            /\ \/ Fields(input.data)[6] # <<"A">>
               \/ \A k \in 1..4 : Fields(input.data)[k] = <<>>
               \/ Fields(input.data)[5] = <<>>)
           => result.st = "Err"

\* ----------------------------------------------------------------- C10

\* digits, with or without a decimal point
IsNumberText(t) ==
    /\ \E k \in 1..Len(t) : IsDigit(t[k])
    /\ \A k \in 1..Len(t) : IsDigit(t[k]) \/ t[k] = "."
    /\ Cardinality({k \in 1..Len(t) : t[k] = "."}) <= 1

\* empty, or digits
IsPrnText(t) == \A k \in 1..Len(t) : IsDigit(t[k])

\* mode1,mode2,<PRN fields>,PDOP,HDOP,VDOP
GsaForm(f) ==
    /\ Len(f) >= 5
    /\ f[1] \in {<<"M">>, <<"A">>} /\ f[2] \in {<<"1">>, <<"2">>, <<"3">>}
    /\ \A k \in 3..(Len(f) - 3) : IsPrnText(f[k])
    /\ \A k \in (Len(f) - 2)..Len(f) : IsNumberText(f[k])

\* the numbers of the PRN fields that are not empty, in order
PrnsOf(f) ==
    Bind(SelectSeq(SubSeq(f, 3, Len(f) - 3), LAMBDA t : t # <<>>), LAMBDA given :
        [k \in 1..Len(given) |-> DecVal(given[k])])

\* C10: for every GSA payload mode1,mode2,<n PRN fields>,PDOP,HDOP,VDOP with
\* the three DOP values present as numbers, with or without a decimal point,
\* parse_gsa succeeds and fix_sats_prn is the sequence of the non-empty PRN
\* fields in source order.
C10_GsaPrns ==
    (fn = "parse_gsa" /\ pc = "done" /\ GsaForm(Fields(input.data))) =>
        /\ result.st = "Ok"
        /\ result.val.fix_sats_prn = PrnsOf(Fields(input.data))

\* ----------------------------------------------------------------- C11

\* an optional value is absent
IsNone(o) == o = None

\* a non-empty run of commas
CommaRun(t) == Len(t) > 0 /\ \A k \in 1..Len(t) : t[k] = ","

\* empty, or digits with or without a decimal point
IsDopText(t) == t = <<>> \/ IsNumberText(t)

\* mode1,mode2,<PRN fields>,PDOP,HDOP,VDOP with some but not all of the three
\* DOP fields empty, or with all three empty after a PRN
PartialDops(f) ==
    /\ Len(f) >= 5
    /\ f[1] \in {<<"M">>, <<"A">>} /\ f[2] \in {<<"1">>, <<"2">>, <<"3">>}
    /\ \A k \in 3..(Len(f) - 3) : IsPrnText(f[k])
    /\ \A k \in (Len(f) - 2)..Len(f) : IsDopText(f[k])
    /\ \E k \in (Len(f) - 2)..Len(f) : f[k] = <<>>
    /\ \E k \in 3..Len(f) : f[k] # <<>>

\* C11: in every record parse_gsa returns, pdop, hdop and vdop are all
\* present or all absent; they are absent exactly when what follows the mode2
\* field is a non-empty run of commas, and then fix_sats_prn is empty; a
\* payload with only one or two DOP values, or with PRNs followed by empty
\* DOP fields, returns an error.
C11_GsaDops ==
    (fn = "parse_gsa" /\ pc = "done") =>
        /\ result.st = "Ok" =>
               /\ IsNone(result.val.pdop) = IsNone(result.val.hdop)
               /\ IsNone(result.val.hdop) = IsNone(result.val.vdop)
               /\ IsNone(result.val.pdop) = CommaRun(Drop(input.data, 3))
               /\ IsNone(result.val.pdop) => result.val.fix_sats_prn = <<>>
        /\ PartialDops(Fields(input.data)) => result.st = "Err"

\* a record without DOP values, returned for a tail of commas alone
C11_Witness ==
    /\ fn = "parse_gsa" /\ pc = "done" /\ result.st = "Ok"
    /\ CommaRun(Drop(input.data, 3))
    /\ Len(input.data) > 5
    /\ IsNone(result.val.pdop) /\ IsNone(result.val.hdop) /\ IsNone(result.val.vdop)
    /\ result.val.fix_sats_prn = <<>>

\* ----------------------------------------------------------------- C12

\* the constellation of a talker id
GnssOfTalker(t) ==
    CASE t = <<"G", "P">> -> "Gps"
      [] t = <<"G", "A">> -> "Galileo"
      [] t = <<"G", "L">> -> "Glonass"
      [] t = <<"G", "N">> -> "Glonass"
      [] OTHER -> "none"

\* C12: parse_gsv maps talker id GP to GPS, GA to Galileo, GL and GN to
\* GLONASS and returns an error for every other talker id; in every GsvData
\* returned the gnss_type of each populated satellite slot is the gnss_type of
\* the sentence.
C12_GsvGnssType ==
    (fn = "parse_gsv" /\ pc = "done") =>
        /\ result.st \in {"Ok", "Err"}
        /\ GnssOfTalker(input.talker_id) = "none" => result.st = "Err"
        /\ result.st = "Ok" =>
               /\ result.val.gnss_type = GnssOfTalker(input.talker_id)
               /\ \A k \in 1..4 :
                      IsSome(result.val.sats_info[k]) =>
                          result.val.sats_info[k][1].gnss_type = result.val.gnss_type

\* a GPS sentence with two satellites, both returned as GPS satellites
C12_Witness ==
    /\ fn = "parse_gsv" /\ pc = "done" /\ result.st = "Ok"
    /\ input.talker_id = <<"G", "P">>
    /\ result.val.gnss_type = "Gps"
    /\ IsSome(result.val.sats_info[2])
    /\ result.val.sats_info[1][1].gnss_type = "Gps"
    /\ result.val.sats_info[2][1].gnss_type = "Gps"

\* ----------------------------------------------------------------- C13

\* the satellite blocks of a payload: the groups of four fields after the
\* three counts
GsvBlocksOf(f) == [k \in 1..((Len(f) - 3) \div 4) |-> SubSeq(f, 4 * k, 4 * k + 3)]

\* three counts and then whole blocks of four fields, or none
GsvForm(f) ==
    /\ Len(f) >= 4
    /\ \A k \in 1..3 : f[k] # <<>> /\ IsPrnText(f[k])
    /\ (Len(f) - 3) % 4 = 0 \/ (Len(f) = 4 /\ f[4] = <<>>)

\* the blocks whose PRN is not empty, in source order
NamedBlocks(f) == SelectSeq(GsvBlocksOf(f), LAMBDA b : b[1] # <<>>)

\* an optional number field
OptNum(t) == IF t = <<>> THEN None ELSE Some(DecVal(t))

\* a block with a PRN and with an elevation, azimuth or SNR that is not
\* empty and not a number
HasBadBlock(f) ==
    \E k \in 1..Len(GsvBlocksOf(f)) :
        /\ GsvBlocksOf(f)[k][1] # <<>>
        /\ \E j \in 2..4 : ~IsPrnText(GsvBlocksOf(f)[k][j])

\* C13: for every GSV payload parse_gsv returns a record for, the populated
\* slots are the first min(4, n) of the n blocks with a non-empty PRN, in
\* source order and as a prefix of the four slots, with elevation, azimuth
\* and SNR absent exactly when their field is empty; a block with a PRN and
\* with an elevation, azimuth or SNR that is not empty and not a number fails
\* the decode.
C13_GsvSlots ==
    (fn = "parse_gsv" /\ pc = "done" /\ GsvForm(Fields(input.data))) =>
        /\ result.st = "Ok" =>
               \A k \in 1..4 :
                   IF k <= Len(NamedBlocks(Fields(input.data)))
                   THEN /\ IsSome(result.val.sats_info[k])
                        /\ result.val.sats_info[k][1].prn
                               = DecVal(NamedBlocks(Fields(input.data))[k][1])
                        /\ result.val.sats_info[k][1].elevation
                               = OptNum(NamedBlocks(Fields(input.data))[k][2])
                        /\ result.val.sats_info[k][1].azimuth
                               = OptNum(NamedBlocks(Fields(input.data))[k][3])
                        /\ result.val.sats_info[k][1].snr
                               = OptNum(NamedBlocks(Fields(input.data))[k][4])
                   ELSE result.val.sats_info[k] = None
        /\ HasBadBlock(Fields(input.data)) => result.st = "Err"

\* ----------------------------------------------------------------- C14

\* digits with or without a decimal point, with a '-' in front or without
IsDecimalText(t) ==
    Len(t) > 0 /\ IsNumberText(IF t[1] = "-" THEN Tail(t) ELSE t)

\* an optional field of a record against its text: absent when the text is
\* empty and present otherwise, with the number of the text when the text is
\* digits with or without a decimal point
NumberOrAbsent(o, t) ==
    IF t = <<>> THEN o = None
    ELSE IsSome(o) /\ (IsDecimalText(t) => o = Some(NumberText(t)))

\* the fix-quality digits
QualityDigits == {"0", "1", "2", "3", "4", "5", "6", "7", "8"}

\* C14: in every record parse_gga returns, fix_time, fix_satellites, hdop,
\* altitude and geoid_height are each absent exactly when their field is
\* empty, a zero text giving a present zero; latitude and longitude are both
\* absent exactly when the four lat/lon fields are all empty and both present
\* otherwise; fix_type is present and is the one of the fix-quality digit
\* 0-8, a missing or other fix-quality character giving no record.
C14_GgaOptionals ==
    (fn = "parse_gga" /\ pc = "done" /\ result.st = "Ok") =>
        /\ Len(Fields(input.data)) >= 12
        /\ IsNone(result.val.fix_time) = (Fields(input.data)[1] = <<>>)
        /\ IF Fields(input.data)[7] = <<>>
           THEN result.val.fix_satellites = None
           ELSE result.val.fix_satellites = Some(DecVal(Fields(input.data)[7]))
        /\ NumberOrAbsent(result.val.hdop, Fields(input.data)[8])
        /\ NumberOrAbsent(result.val.altitude, Fields(input.data)[9])
        /\ NumberOrAbsent(result.val.geoid_height, Fields(input.data)[11])
        /\ IsNone(result.val.latitude) = IsNone(result.val.longitude)
        /\ IsNone(result.val.latitude) = (\A k \in 2..5 : Fields(input.data)[k] = <<>>)
        /\ Len(Fields(input.data)[6]) = 1
        /\ Fields(input.data)[6][1] \in QualityDigits
        /\ result.val.fix_type = Some(FixType(Fields(input.data)[6][1]))

\* a record with no time and no geoid height, with zero satellites, a zero
\* HDOP and a zero altitude, and with a position
C14_Witness ==
    /\ fn = "parse_gga" /\ pc = "done" /\ result.st = "Ok"
    /\ Fields(input.data)[1] = <<>> /\ IsNone(result.val.fix_time)
    /\ Fields(input.data)[7] = <<"0">> /\ result.val.fix_satellites = Some(0)
    /\ Fields(input.data)[8] = <<"0">> /\ result.val.hdop = Some(Rat(FALSE, 0, 1))
    /\ Fields(input.data)[9] = <<"0">> /\ result.val.altitude = Some(Rat(FALSE, 0, 1))
    /\ IsSome(result.val.latitude) /\ IsSome(result.val.longitude)
    /\ result.val.fix_type = Some("Simulation")

\* ----------------------------------------------------------------- C15

\* the sentence with field k of its payload replaced by the text u
WithField(s, k, u) == [s EXCEPT !.data = Join([Fields(s.data) EXCEPT ![k] = u])]

\* the texts a unit field is replaced by: other letters, and nothing
OtherUnits == {<<"F">>, <<"m">>, <<"K">>, <<>>}

\* C15: for every GGA payload that decodes with the unit letter 'M',
\* replacing the altitude unit field or the geoid-height unit field with any
\* other single letter, or with empty text, decodes to the same record.
C15_GgaUnits ==
    (fn = "parse_gga" /\ pc = "done" /\ result.st = "Ok") =>
        \A k \in {10, 12} :
            Fields(input.data)[k] = <<"M">> =>
                \A u \in OtherUnits : parse_gga(WithField(input, k, u)) = result

\* ----------------------------------------------------------------- C16

\* the status a letter stands for
StatusOfLetter(t) ==
    CASE t = <<"A">> -> "Autonomous"
      [] t = <<"D">> -> "Differential"
      [] t = <<"V">> -> "Invalid"
      [] OTHER -> "none"

\* the sentence with everything after the date field (field 9 of the payload)
\* replaced by tail
WithTail(s, tail) == [s EXCEPT !.data = Join(SubSeq(Fields(s.data), 1, 9)) \o tail]

\* C16: parse_rmc maps status 'A' to Autonomous, 'D' to Differential and 'V'
\* to Invalid and returns an error for any other or an empty status; what it
\* returns does not depend on what follows the date field: any content, empty
\* fields, or nothing at all give the same result.
C16_RmcStatusAndTail ==
    (fn = "parse_rmc" /\ pc = "done" /\ Len(Fields(input.data)) >= 9) =>
        /\ result.st = "Ok" =>
               result.val.status_of_fix = Some(StatusOfLetter(Fields(input.data)[2]))
        /\ StatusOfLetter(Fields(input.data)[2]) = "none" => result.st = "Err"
        /\ \A tail \in RmcTails : parse_rmc(WithTail(input, tail)) = result

\* ----------------------------------------------------------------- C17

\* the position of the '*' that ends the payload: the first one after the
\* seven bytes '$', talker id, message id and ','; 0 when there is none
PayloadEnd(i) == IF Find(Drop(i, 7), "*") = 0 THEN 0 ELSE 7 + Find(Drop(i, 7), "*")

\* '$', seven bytes in all up to the ',', a payload, '*' and two more bytes
Framable(i) ==
    /\ Len(i) >= 10 /\ i[1] = "$" /\ i[7] = ","
    /\ PayloadEnd(i) > 0 /\ Len(i) >= PayloadEnd(i) + 2

\* the two bytes after the '*' are hexadecimal digits
TwoHexDigits(i) == IsHexDigit(i[PayloadEnd(i) + 1]) /\ IsHexDigit(i[PayloadEnd(i) + 2])

\* the errors of the structurally malformed: no '$', no ',', no '*', ids cut
\* short, checksum cut short
StructuralErrors ==
    {parse_nmea_sentence(m) :
        m \in {<<"G", "P", "G", "S", "A", ",", "A", "*", "3", "2">>,
                <<"$", "G", "P", "G", "S", "A", "A", "*", "3", "2">>,
                <<"$", "G", "P", "G", "S", "A", ",", "A">>,
                <<"$", "G", "P", "G">>,
                <<"$", "G", "P", "G", "S", "A", ",", "A", "*", "3">>}}

\* C17: parse_nmea_sentence succeeds only on '$', 2 talker-id bytes, 3
\* message-id bytes, ',', a payload up to the first '*', '*' and two bytes that
\* are both hexadecimal digits, and returns their value as the checksum; when
\* the two bytes are not both hexadecimal digits it fails with an error that
\* is none of the errors of a structurally malformed input.
C17_Framing ==
    (fn = "parse" /\ pc # "call") =>
        /\ sentence # Nothing =>
               /\ Framable(input) /\ TwoHexDigits(input)
               /\ sentence = [talker_id |-> SubSeq(input, 2, 3),
                              message_id |-> SubSeq(input, 4, 6),
                              data |-> SubSeq(input, 8, PayloadEnd(input) - 1),
                              checksum |-> HexNum(SubSeq(input, PayloadEnd(input) + 1,
                                                         PayloadEnd(input) + 2))]
        /\ (Framable(input) /\ ~TwoHexDigits(input)) =>
               /\ sentence = Nothing
               /\ result.st = "Err"
               /\ result \notin StructuralErrors

\* ----------------------------------------------------------------- C18

\* what is put after the two checksum bytes: nothing, a line terminator, the
\* start of another sentence, a second checksum
Trailers == {<<>>, <<"\r", "\n">>, <<"\r", "\n", "$", "G", "P", "G", "G", "A", ",">>, <<"*", "0", "0">>}

\* the input up to and including the two bytes after the '*' at position p,
\* followed by t
Retailed(i, p, t) == Take(i, p + 2) \o t

\* the first '*' of the input, 0 when there is none
FirstStar(i) == Find(i, "*")

\* parse_nmea_sentence and parse return on j what parse returned on the
\* input, up to the ceiling on the length
SameAsInput(j) ==
    IF Len(j) <= MaxSentenceLen
    THEN parse(j) = result /\ parse_nmea_sentence(j) = parse_nmea_sentence(input)
    ELSE parse(j) = ResErr("Too long message")

\* C18 (as amended): for any two inputs of at most 102 bytes that are
\* identical up to and including the two bytes after the first '*' that
\* follows the first seven bytes, parse_nmea_sentence and parse return the
\* same result, whatever bytes follow; the trailing bytes count only toward
\* the 102-byte ceiling.
C18_TrailingIgnored ==
    (fn = "parse" /\ pc = "done" /\ Len(input) <= MaxSentenceLen
        /\ PayloadEnd(input) > 0 /\ Len(input) >= PayloadEnd(input) + 2)
    => /\ \A t \in Trailers : SameAsInput(Retailed(input, PayloadEnd(input), t))
       /\ \A n \in (MaxSentenceLen - 1)..(MaxSentenceLen + 1) :
              n >= PayloadEnd(input) + 2 =>
                  SameAsInput(Retailed(input, PayloadEnd(input),
                                       Commas(n - PayloadEnd(input) - 2)))

\* a decoded sentence followed by a line terminator: the same record without
\* it, and with the start of another sentence after it
C18_Witness ==
    /\ fn = "parse" /\ pc = "done" /\ result.st = "Ok"
    /\ result.val.variant # "Unsupported"
    /\ Len(input) = PayloadEnd(input) + 4
    /\ parse(Retailed(input, PayloadEnd(input), <<>>)) = result
    /\ parse(Retailed(input, PayloadEnd(input), <<"\r", "\n", "$", "G", "P", "G", "G", "A", ",">>)) = result

\* C18 (as claimed): for any two inputs of at most 102 bytes that are
\* identical up to and including the two bytes after the first '*',
\* parse_nmea_sentence and parse return the same result, whatever bytes
\* follow.
C18_AfterFirstStar ==
    (fn = "parse" /\ pc = "done" /\ Len(input) <= MaxSentenceLen
        /\ FirstStar(input) > 0 /\ Len(input) >= FirstStar(input) + 2)
    => \A t \in Trailers : SameAsInput(Retailed(input, FirstStar(input), t))

=============================================================================
